---------------------------- MODULE Spec2Model ----------------------------
(***************************************************************************)
(* Verification model of the code-complexity engine of the "quality"       *)
(* subsystem (src/quality/core): the recursive node scorer with its depth  *)
(* and visited guards, the hotspot utilities, and the module dependency    *)
(* graph analyser (resolve, cycle-safe topological sort, aggregation).     *)
(*                                                                         *)
(* Scores are IEEE doubles in the source; here they are fixed-point        *)
(* integers in thousandths (1.0 is 1000), so 0.5 is 500 and a product by   *)
(* 0.3 is (x * 3) \div 10.                                                 *)
(*                                                                         *)
(* The repository carries three generations of the statement scorer; the   *)
(* variable impl says which one a run uses:                                *)
(*   "calculator"  complexity/statement.ts lines 1-639                     *)
(*   "pattern"     complexity/statement.ts lines 641-1214                  *)
(*   "legacy"      complexity.ts                                           *)
(***************************************************************************)
EXTENDS Integers, Sequences, FiniteSets, TLC

VARIABLES
  impl,          \* which generation of the statement scorer is linked in
  sourceFile,    \* ts.SourceFile.statements: the node ids of the top-level statements
  options,       \* ComplexityOptions: [maxDepth]
  fileResult,    \* result of calculateFileComplexity(sourceFile, options)
  prevFileScore, \* score of the file before the last appended statement
  context,       \* a ComplexityContext handed to calculateNodeComplexity by a caller
  outcome,       \* last facade call: [kind, node, result, entry]
  hotspots,      \* last answer of extractHotspots: [threshold, list]
  summary,       \* last answer of summarizeComplexityResult
  filePaths,     \* calculateModulesComplexity input: array of paths
  fileContents,  \* calculateModulesComplexity input: path -> content
  modules,       \* ModuleDependency[] in creation order
  pc,            \* position inside calculateModulesComplexity
  order,         \* topologicalSort: the result array / the sorted array
  stack,         \* call stack of visitModule / calculateDependencyComplexity
  calculatedModules, \* calculateModuleComplexity: Set of paths
  processingModules, \* calculateModuleComplexity: Set of paths
  results,       \* ModuleComplexityResult[] returned to the caller
  cursor,        \* index of the for loop the pipeline is in
  reached,       \* observer: edges the DFS found leading to a module in progress
  comparison,    \* last answer of compareCodeComplexity, with its arguments
  previous,      \* the answer before it
  resolution,    \* last answer of extractDependencyFromImport, with its arguments
  lint,          \* a run of the lint plugin: program, visitor position, diagnostics
  aggregation    \* last answer of calculateModuleComplexity called on a list, with its record

scoreVars  == <<impl, sourceFile, options, fileResult, prevFileScore, context,
                outcome, hotspots, summary>>
moduleVars == <<filePaths, fileContents, modules, pc, order, stack,
                calculatedModules, processingModules, results, cursor, reached>>
compareVars == <<comparison, previous>>
\* answers of the stand-alone operations
sideVars == <<resolution, lint, aggregation>>
vars == <<scoreVars, moduleVars, compareVars, sideVars>>

-----------------------------------------------------------------------------
(* Bounds of the model *)

\* statements in a scored source file
MaxStatements == 2
\* import declarations per module file
MaxImports == 2
\* facade calls that share one context
MaxCalls == 2
\* frames the runtime's call stack holds before it raises a RangeError
MaxStack == 6
\* cases of the largest switch and branches of the longest chain compared
MaxCases == 3
\* modules in a list handed to calculateModuleComplexity
MaxModules == 13
\* leading modules of such a list among which an extra import is drawn
MaxCycle == 3

-----------------------------------------------------------------------------
(* The syntax facade: a table of parsed nodes.  A node is                  *)
(*   [kind, x, a, flag, n]                                                  *)
(* x: the fixed-role children (0 = absent), a: the list children, flag: the *)
(* operator / binding form, n: a count the weights read.                    *)

Node(kind, x, a, flag, n) == [kind |-> kind, x |-> x, a |-> a, flag |-> flag, n |-> n]
Leaf(kind) == Node(kind, <<>>, <<>>, "", 0)

(* The nodes after the table below are laid out by rule.  A shape is a node *)
(* whose children are given relative to its own place:                     *)
(*   <<kind, x, a, flag, n>>.                                               *)

\* if (a <op> 0) { return 1; } [else ...]: seven nodes; o is the place in
\* the branch, next the distance to the else branch (0: none)
BranchNodes(o, op, next) ==
  CASE o = 0 -> <<"IfStatement", <<1, 4, next>>, <<>>, "", 0>>
    [] o = 1 -> <<"BinaryExpression", <<1, 2>>, <<>>, op, 0>>
    [] o = 2 -> <<"Identifier", <<>>, <<>>, "", 0>>
    [] o = 4 -> <<"Block", <<>>, <<1>>, "", 0>>
    [] o = 5 -> <<"ReturnStatement", <<1>>, <<>>, "", 0>>
    [] OTHER -> <<"NumericLiteral", <<>>, <<>>, "", 0>>

\* function test(a) { if (a > 0) { return 1; } ... (k times) return 0; }:
\* the node o places after the function declaration
FunctionNodes(k, o) ==
  IF o = 0 THEN <<"FunctionDeclaration", <<1>>, <<>>, "", 1>>
  ELSE IF o = 1 THEN <<"Block", <<>>, [i \in 1..(k + 1) |-> 7 * i - 6], "", 0>>
  ELSE IF o < 2 + 7 * k THEN BranchNodes((o - 2) % 7, ">", 0)
  ELSE IF o = 2 + 7 * k THEN <<"ReturnStatement", <<1>>, <<>>, "", 0>>
  ELSE <<"NumericLiteral", <<>>, <<>>, "", 0>>

\* switch (a) { case 1: return 1; ... case n: return n; }: the node o
\* places after the switch statement
SwitchNodes(n, o) ==
  IF o = 0 THEN <<"SwitchStatement", <<1>>, [i \in 1..n |-> 4 * i - 2], "", 0>>
  ELSE IF o = 1 THEN <<"Identifier", <<>>, <<>>, "", 0>>
  ELSE IF (o - 2) % 4 = 0 THEN <<"CaseClause", <<1>>, <<2>>, "", 0>>
  ELSE IF (o - 2) % 4 = 2 THEN <<"ReturnStatement", <<1>>, <<>>, "", 0>>
  ELSE <<"NumericLiteral", <<>>, <<>>, "", 0>>

\* if (a === 1) { return 1; } else if (a === 2) { return 2; } ... (n
\* branches): the node o places after the first if statement
ChainNodes(n, o) == BranchNodes(o % 7, "===", IF o \div 7 < n - 1 THEN 7 ELSE 0)

\* switch (k) { case a + b: }: the node o places after the switch statement
CaseSwitchNodes(o) ==
  CASE o = 0 -> <<"SwitchStatement", <<1>>, <<2>>, "", 0>>
    [] o = 2 -> <<"CaseClause", <<1>>, <<>>, "", 0>>
    [] o = 3 -> <<"BinaryExpression", <<1, 2>>, <<>>, "+", 0>>
    [] OTHER -> <<"Identifier", <<>>, <<>>, "", 0>>

OneIfFunction == 50
ThreeIfFunction == 61
\* the switch with n cases follows the switches with fewer cases, each of
\* 2 + 4 m nodes, the first at node 86
SwitchRoot(n) == 78 + 2 * n * n
\* the chain of n branches is the tail of the chain of MaxCases branches
ChainRoot(n) == SwitchRoot(MaxCases + 1) + 7 * (MaxCases - n)
\* the switch on a computed case follows the chain
CaseSwitch == SwitchRoot(MaxCases + 1) + 7 * MaxCases
UniverseSize == CaseSwitch + 5

\* the shape of node m and the place of its first node
GeneratedNode(m) ==
  LET placed(shape) ==
        Node(shape[1],
             [i \in 1..Len(shape[2]) |-> IF shape[2][i] = 0 THEN 0 ELSE m + shape[2][i]],
             [i \in 1..Len(shape[3]) |-> m + shape[3][i]],
             shape[4], shape[5])
      switch(cases) == SwitchNodes(cases, m - SwitchRoot(cases))
  IN placed(IF m < ThreeIfFunction THEN FunctionNodes(1, m - OneIfFunction)
            ELSE IF m < SwitchRoot(2) THEN FunctionNodes(3, m - ThreeIfFunction)
            ELSE IF m < SwitchRoot(MaxCases + 1)
              THEN switch(CHOOSE c \in 2..MaxCases : m < SwitchRoot(c + 1))
            ELSE IF m < CaseSwitch THEN ChainNodes(MaxCases, m - SwitchRoot(MaxCases + 1))
            ELSE CaseSwitchNodes(m - CaseSwitch))

Universe == <<
  (*  1 *) Node("ExpressionStatement", <<2>>, <<>>, "", 0),          \* f(a);
  (*  2 *) Node("CallExpression", <<3>>, <<4>>, "", 0),
  (*  3 *) Leaf("Identifier"),
  (*  4 *) Leaf("Identifier"),
  (*  5 *) Node("VariableStatement", <<>>, <<6>>, "let", 1),         \* let y = a + b;
  (*  6 *) Node("BinaryExpression", <<7, 8>>, <<>>, "+", 0),
  (*  7 *) Leaf("Identifier"),
  (*  8 *) Leaf("Identifier"),
  (*  9 *) Node("IfStatement", <<10, 13, 0>>, <<>>, "", 0),          \* if (a > 0) { g; }
  (* 10 *) Node("BinaryExpression", <<11, 12>>, <<>>, ">", 0),
  (* 11 *) Leaf("Identifier"),
  (* 12 *) Leaf("NumericLiteral"),
  (* 13 *) Node("Block", <<>>, <<14>>, "", 0),
  (* 14 *) Node("ExpressionStatement", <<15>>, <<>>, "", 0),
  (* 15 *) Leaf("Identifier"),
  (* 16 *) Node("TryStatement", <<17, 18, 20>>, <<>>, "", 0),        \* try {} catch (e) {} finally {}
  (* 17 *) Node("Block", <<>>, <<>>, "", 0),
  (* 18 *) Node("CatchClause", <<19>>, <<>>, "var", 0),
  (* 19 *) Node("Block", <<>>, <<>>, "", 0),
  (* 20 *) Node("Block", <<>>, <<>>, "", 0),
  (* 21 *) Node("SwitchStatement", <<22>>, <<23, 26>>, "", 0),       \* switch (k) { case 1: break; default: }
  (* 22 *) Leaf("Identifier"),
  (* 23 *) Node("CaseClause", <<24>>, <<25>>, "", 0),
  (* 24 *) Leaf("NumericLiteral"),
  (* 25 *) Leaf("BreakStatement"),
  (* 26 *) Node("DefaultClause", <<0>>, <<>>, "", 0),
  (* 27 *) Node("WhileStatement", <<28, 29>>, <<>>, "", 0),          \* while (c) c--;
  (* 28 *) Leaf("Identifier"),
  (* 29 *) Node("ExpressionStatement", <<30>>, <<>>, "", 0),
  (* 30 *) Node("PostfixUnaryExpression", <<31>>, <<>>, "--", 0),
  (* 31 *) Leaf("Identifier"),
  (* 32 *) Node("FunctionDeclaration", <<>>, <<>>, "", 2),           \* function f(a, b) { ... }
  (* 33 *) Node("ClassDeclaration", <<>>, <<>>, "extends", 2),       \* class C extends B { m; k }
  (* 34 *) Node("ThrowStatement", <<35>>, <<>>, "", 0),              \* throw e;
  (* 35 *) Leaf("Identifier"),
  (* 36 *) Node("Block", <<>>, <<37>>, "", 0),                       \* { z; }
  (* 37 *) Node("ExpressionStatement", <<38>>, <<>>, "", 0),
  (* 38 *) Leaf("Identifier"),
  (* 39 *) Node("IfStatement", <<40, 39, 0>>, <<>>, "", 0),          \* malformed: its own then-branch
  (* 40 *) Leaf("Identifier"),
  (* 41 *) Node("TryStatement", <<42, 0, 45>>, <<>>, "", 0),         \* try { h; } finally {}
  (* 42 *) Node("Block", <<>>, <<43>>, "", 0),
  (* 43 *) Node("ExpressionStatement", <<44>>, <<>>, "", 0),
  (* 44 *) Leaf("Identifier"),
  (* 45 *) Node("Block", <<>>, <<>>, "", 0),
  (* 46 *) Node("TryStatement", <<47, 48, 0>>, <<>>, "", 0),         \* try {} catch {}
  (* 47 *) Node("Block", <<>>, <<>>, "", 0),
  (* 48 *) Node("CatchClause", <<49>>, <<>>, "", 0),
  (* 49 *) Node("Block", <<>>, <<>>, "", 0)
>>

NodeIds == 1..UniverseSize

\* The i-th import declaration of a module file is a node of its own.
importNode(i) == UniverseSize + i

nodeOf(n) ==
  [m \in Nat |->
     IF m < OneIfFunction THEN Universe[m]
     ELSE IF m <= UniverseSize THEN GeneratedNode(m)
     ELSE Leaf("ImportDeclaration")][n]
kindOf(n) == nodeOf(n).kind

\* Top-level statements a scored file is built from.
StatementRoots ==
  {1, 5, 9, 16, 21, 27, 32, 33, 34, 36, OneIfFunction, ThreeIfFunction, CaseSwitch}
  \cup {SwitchRoot(n) : n \in 2..MaxCases} \cup {ChainRoot(n) : n \in 2..MaxCases}
\* Nodes that no parser produces (structurally cyclic).
Malformed == {39}

ExpressionKinds == {"Identifier", "NumericLiteral", "BinaryExpression",
  "PrefixUnaryExpression", "PostfixUnaryExpression", "ConditionalExpression",
  "CallExpression", "PropertyAccessExpression", "ElementAccessExpression",
  "ObjectLiteralExpression", "ArrayLiteralExpression"}
StatementKinds == {"ExpressionStatement", "VariableStatement", "IfStatement",
  "ForStatement", "ForOfStatement", "ForInStatement", "WhileStatement",
  "DoStatement", "SwitchStatement", "TryStatement", "ThrowStatement",
  "ReturnStatement", "BreakStatement", "FunctionDeclaration",
  "ClassDeclaration", "InterfaceDeclaration", "ImportDeclaration"}

-----------------------------------------------------------------------------
(* ComplexityResult and ComplexityContext (complexity/common.ts)            *)

Result(score, n, children, lineInfo, truncated, circular) ==
  [score |-> score, nodeType |-> kindOf(n), children |-> children,
   lineInfo |-> lineInfo, metadata |-> [truncated |-> truncated, circular |-> circular]]

\* The null of "ComplexityResult | null".
Null == [score |-> -1, nodeType |-> "", children |-> <<>>, lineInfo |-> 0,
         metadata |-> [truncated |-> FALSE, circular |-> FALSE]]

DefaultMaxDepth == 20

\* trace and runs observe the run: one trace entry per scorer call that
\* returned, and the number of times each node's formula was started.
createComplexityContext(opts) ==
  [visitedNodes |-> {},
   maxDepth |-> IF opts.maxDepth # 0 THEN opts.maxDepth ELSE DefaultMaxDepth,
   currentDepth |-> 0,
   trace |-> <<>>,
   runs |-> [n \in {} |-> 0]]

createTruncatedResult(n) == Result(1000, n, <<>>, 0, TRUE, FALSE)

\* getNodeLineInfo: the position of the node stands for its line range.
getNodeLineInfo(n) == n

Out(res, ctx) == [res |-> res, ctx |-> ctx]

RECURSIVE SumScores(_)
SumScores(rs) == IF rs = <<>> THEN 0 ELSE Head(rs).score + SumScores(Tail(rs))

Present(ids) == SelectSeq(ids, LAMBDA i : i # 0)

Max(a, b) == IF a >= b THEN a ELSE b

\* One trace entry for the call fn(n, cin) that returned o.
Observe(fn, n, cin, o) ==
  [o EXCEPT !.ctx.trace = Append(@,
     [fn |-> fn, node |-> n,
      depthIn |-> cin.currentDepth, depthOut |-> o.ctx.currentDepth,
      maxDepth |-> cin.maxDepth,
      visitedIn |-> n \in cin.visitedNodes,
      calls |-> Len(o.ctx.trace) - Len(cin.trace),
      res |-> [o.res EXCEPT !.children = Len(@)]])]

\* context.visitedNodes.add(n); context.currentDepth++
Enter(n, ctx) ==
  [ctx EXCEPT !.visitedNodes = @ \cup {n},
              !.currentDepth = @ + 1,
              !.runs = IF n \in DOMAIN @ THEN [@ EXCEPT ![n] = @ + 1]
                       ELSE [m \in DOMAIN @ \cup {n} |-> IF m = n THEN 1 ELSE @[m]]]

\* context.currentDepth--
Leave(o) == [o EXCEPT !.ctx.currentDepth = @ - 1]

-----------------------------------------------------------------------------
(* Expression scorer (expression.ts inside complexity/statement.ts)        *)

getBinaryOperatorComplexity(op) ==
  IF op \in {"&&", "||"} THEN 500
  ELSE IF op \in {"==", "===", "!=", "!==", "<", "<=", ">", ">="} THEN 300
  ELSE 100

createCircularReferenceResult(e) ==
  LET baseScore(nd) ==
        IF nd.kind = "BinaryExpression" THEN 1000 + getBinaryOperatorComplexity(nd.flag)
        ELSE IF nd.kind = "ConditionalExpression" THEN 1000 + 1000
        ELSE IF nd.kind = "CallExpression" THEN 1000 + Len(nd.a) * 200
        ELSE 1000
  IN Result(baseScore(nodeOf(e)), e, <<>>, 0, FALSE, TRUE)

\* Faulty variant: the depth limit tested with > instead of >=.
checkEarlyReturn_OffByOne(e, ctx) ==
  IF ctx.currentDepth > ctx.maxDepth THEN createTruncatedResult(e)
  ELSE IF e \in ctx.visitedNodes THEN createCircularReferenceResult(e)
  ELSE Null

checkEarlyReturn(e, ctx) ==
  IF ctx.currentDepth >= ctx.maxDepth THEN createTruncatedResult(e)
  ELSE IF e \in ctx.visitedNodes THEN createCircularReferenceResult(e)
  ELSE Null

RECURSIVE calculateExpressionComplexityWithPattern(_, _)
RECURSIVE calculateStatementComplexityWithPattern(_, _)
RECURSIVE calculateBlockComplexity(_, _)
RECURSIVE ScoreEach(_, _, _)

\* A call a formula makes: scorer fn on node, its score entering the sum
\* with weight w / 10.
Call(fn, n, w) == [fn |-> fn, node |-> n, w |-> w]
E(ids) == [i \in 1..Len(Present(ids)) |-> Call("expr", Present(ids)[i], 10)]
S(ids) == [i \in 1..Len(Present(ids)) |-> Call("stmt", Present(ids)[i], 10)]
B(ids) == [i \in 1..Len(Present(ids)) |-> Call("block", Present(ids)[i], 10)]

\* Makes the calls in order, threading the context through them.
ScoreEach(calls, ctx, acc) ==
  IF calls = <<>> THEN [results |-> acc, ctx |-> ctx]
  ELSE LET score(c) ==
             CASE c.fn = "expr"  -> calculateExpressionComplexityWithPattern(c.node, ctx)
               [] c.fn = "stmt"  -> calculateStatementComplexityWithPattern(c.node, ctx)
               [] c.fn = "block" -> calculateBlockComplexity(c.node, ctx)
           rest(o) == ScoreEach(Tail(calls), o.ctx, Append(acc, o.res))
       IN rest(score(Head(calls)))

RECURSIVE WeightedSum(_, _)
WeightedSum(calls, rs) ==
  IF calls = <<>> THEN 0
  ELSE (Head(rs).score * Head(calls).w) \div 10 + WeightedSum(Tail(calls), Tail(rs))

\* The expressions an expression's formula scores, in the order it scores them.
ExpressionOperands(nd) ==
  CASE nd.kind \in {"BinaryExpression", "ConditionalExpression",
                    "ElementAccessExpression", "PrefixUnaryExpression",
                    "PostfixUnaryExpression", "PropertyAccessExpression"} -> nd.x
    [] nd.kind = "CallExpression" -> nd.x \o nd.a
    [] nd.kind \in {"ObjectLiteralExpression", "ArrayLiteralExpression"} -> nd.a
    [] OTHER -> <<>>

\* selectExpressionCalculator and the calculators it selects: the score of
\* expression e from the results rs of its operands.
ExpressionScore(nd, rs) ==
  CASE nd.kind = "BinaryExpression" ->
         rs[1].score + rs[2].score + getBinaryOperatorComplexity(nd.flag) + 1000
    [] nd.kind = "PrefixUnaryExpression" ->
         1000 + rs[1].score + (IF nd.flag = "!" THEN 300 ELSE 100)
    [] nd.kind = "PostfixUnaryExpression" -> 1000 + rs[1].score + 200
    [] nd.kind = "ConditionalExpression" ->
         1000 + rs[1].score + rs[2].score + rs[3].score
    [] nd.kind = "CallExpression" ->
         \* argMultiplier = Math.max(1, arguments.length * 0.2)
         1000 + rs[1].score + (SumScores(Tail(rs)) * Max(5, Len(nd.a))) \div 5
    [] nd.kind = "PropertyAccessExpression" -> 1000 + rs[1].score
    [] nd.kind = "ElementAccessExpression" -> 1000 + rs[1].score + rs[2].score
    [] nd.kind \in {"ObjectLiteralExpression", "ArrayLiteralExpression"} ->
         1000 + SumScores(rs)
    [] OTHER -> 1000

selectExpressionCalculator(e, ctx) ==
  LET result(nd, r) ==
        Out(Result(ExpressionScore(nd, r.results), e, r.results, getNodeLineInfo(e),
                   FALSE, FALSE),
            r.ctx)
      operands(nd) == result(nd, ScoreEach(E(ExpressionOperands(nd)), ctx, <<>>))
  IN operands(nodeOf(e))

calculateExpressionNodeComplexity(e, ctx) == selectExpressionCalculator(e, ctx)

calculateExpressionComplexityWithPattern(e, ctx) ==
  LET body(earlyResult) ==
        IF earlyResult # Null THEN Out(earlyResult, ctx)
        ELSE Leave(calculateExpressionNodeComplexity(e, Enter(e, ctx)))
  IN Observe("expr", e, ctx, body(checkEarlyReturn(e, ctx)))

calculateExpressionComplexity(e, ctx) == calculateExpressionComplexityWithPattern(e, ctx)

-----------------------------------------------------------------------------
(* Statement scorer, three generations, and the block scorer               *)

createCircularReferenceStatementResult(s) ==
  LET baseScore(k) ==
        IF k = "IfStatement" THEN 1000 + 500
        ELSE IF k \in {"ForStatement", "ForOfStatement", "ForInStatement"} THEN 1000 + 800
        ELSE IF k = "WhileStatement" THEN 1000 + 800
        ELSE IF k = "DoStatement" THEN 1000 + 1000
        ELSE IF k = "SwitchStatement" THEN 1000 + 1500
        ELSE IF k = "TryStatement" THEN 1000 + 3000
        ELSE IF k = "ThrowStatement" THEN 1000 + 1000
        ELSE 1000
  IN Result(baseScore(kindOf(s)), s, <<>>, 0, FALSE, TRUE)

checkEarlyReturnForStatement(s, ctx) ==
  IF ctx.currentDepth >= ctx.maxDepth THEN createTruncatedResult(s)
  ELSE IF s \in ctx.visitedNodes THEN createCircularReferenceStatementResult(s)
  ELSE Null

RECURSIVE ClauseCalls(_)
\* switch: per clause the case expression (weight 0.3), then its statements.
ClauseCalls(clauses) ==
  IF clauses = <<>> THEN <<>>
  ELSE LET ex(cl) == IF cl.kind = "CaseClause" /\ cl.x[1] # 0
                     THEN <<Call("expr", cl.x[1], 3)>> ELSE <<>>
           clause(cl) == ex(cl) \o S(cl.a)
       IN clause(nodeOf(Head(clauses))) \o ClauseCalls(Tail(clauses))

\* Faulty variant: a function declaration scores its body block as a child.
StatementCalls_IntoFunctions(s, gen) ==
  LET calls(nd, k) ==
    CASE k = "ExpressionStatement" -> E(nd.x)
       [] k = "VariableStatement" -> E(nd.a)
       [] k = "IfStatement" -> E(<<nd.x[1]>>) \o S(<<nd.x[2], nd.x[3]>>)
       [] k = "ForStatement" -> E(nd.a) \o E(<<nd.x[1], nd.x[2]>>) \o S(<<nd.x[3]>>)
       [] k \in {"ForOfStatement", "ForInStatement"} ->
            E(nd.a) \o E(<<nd.x[1]>>) \o S(<<nd.x[2]>>)
       [] k = "WhileStatement" -> E(<<nd.x[1]>>) \o S(<<nd.x[2]>>)
       [] k = "DoStatement" ->
            IF gen = "calculator" THEN E(<<nd.x[1]>>) \o S(<<nd.x[2]>>)
            ELSE S(<<nd.x[2]>>) \o E(<<nd.x[1]>>)
       [] k = "SwitchStatement" /\ gen # "calculator" -> E(nd.x) \o ClauseCalls(nd.a)
       [] k = "TryStatement" /\ gen # "calculator" ->
            B(<<nd.x[1]>>)
            \o (IF nd.x[2] # 0 THEN B(nodeOf(nd.x[2]).x) ELSE <<>>)
            \o B(<<nd.x[3]>>)
       [] k \in {"ThrowStatement", "ReturnStatement"} /\ gen # "calculator" -> E(nd.x)
       [] k = "Block" -> B(<<s>>)
       [] k = "FunctionDeclaration" -> B(nd.x)
       [] OTHER -> <<>>
      ofNode(nd) == calls(nd, nd.kind)
  IN ofNode(nodeOf(s))

\* The calls the formula of statement s makes, in order.  x holds, by kind:
\* if <<condition, then, else>>, for <<condition, incrementor, body>> with
\* the initializers in a, for-of/in <<iterable, body>>, while/do
\* <<condition, body>>, switch <<discriminant>> with the clauses in a,
\* try <<tryBlock, catchClause, finallyBlock>>, others <<expression>>.
StatementCalls(s, gen) ==
  LET calls(nd, k) ==
    CASE k = "ExpressionStatement" -> E(nd.x)
       [] k = "VariableStatement" -> E(nd.a)
       [] k = "IfStatement" -> E(<<nd.x[1]>>) \o S(<<nd.x[2], nd.x[3]>>)
       [] k = "ForStatement" -> E(nd.a) \o E(<<nd.x[1], nd.x[2]>>) \o S(<<nd.x[3]>>)
       [] k \in {"ForOfStatement", "ForInStatement"} ->
            E(nd.a) \o E(<<nd.x[1]>>) \o S(<<nd.x[2]>>)
       [] k = "WhileStatement" -> E(<<nd.x[1]>>) \o S(<<nd.x[2]>>)
       [] k = "DoStatement" ->
            IF gen = "calculator" THEN E(<<nd.x[1]>>) \o S(<<nd.x[2]>>)
            ELSE S(<<nd.x[2]>>) \o E(<<nd.x[1]>>)
       [] k = "SwitchStatement" /\ gen # "calculator" -> E(nd.x) \o ClauseCalls(nd.a)
       [] k = "TryStatement" /\ gen # "calculator" ->
            B(<<nd.x[1]>>)
            \o (IF nd.x[2] # 0 THEN B(nodeOf(nd.x[2]).x) ELSE <<>>)
            \o B(<<nd.x[3]>>)
       [] k \in {"ThrowStatement", "ReturnStatement"} /\ gen # "calculator" -> E(nd.x)
       [] k = "Block" -> B(<<s>>)
       [] OTHER -> <<>>
      ofNode(nd) == calls(nd, nd.kind)
  IN ofNode(nodeOf(s))

\* Faulty variant: a switch adds 5 per clause instead of 0.5.
StatementTerm_FivePerCase(s, gen) ==
  LET term(nd, k) ==
    CASE k = "VariableStatement" /\ gen # "calculator" ->
            IF nd.flag = "let" THEN 500 ELSE 0
       [] k = "IfStatement" -> 500
       [] k = "ForStatement" -> 1000
       [] k \in {"ForOfStatement", "ForInStatement", "WhileStatement"} -> 800
       [] k = "DoStatement" -> 1000
       [] k = "SwitchStatement" /\ gen # "calculator" -> Len(nd.a) * 5000
       [] k = "TryStatement" /\ gen # "calculator" ->
            (IF nd.x[2] # 0
             THEN 2000 + (IF nodeOf(nd.x[2]).flag = "var" THEN 500 ELSE 0) ELSE 0)
            + (IF nd.x[3] # 0 THEN 1500 ELSE 0)
            + 1000
       [] k = "ThrowStatement" /\ gen # "calculator" -> 1000
       [] OTHER -> 0
      ofNode(nd) == term(nd, nd.kind)
  IN ofNode(nodeOf(s))

\* The kind-specific terms added to 1 + the children's (weighted) scores.
StatementTerm(s, gen) ==
  LET term(nd, k) ==
    CASE k = "VariableStatement" /\ gen # "calculator" ->
            IF nd.flag = "let" THEN 500 ELSE 0
       [] k = "IfStatement" -> 500
       [] k = "ForStatement" -> 1000
       [] k \in {"ForOfStatement", "ForInStatement", "WhileStatement"} -> 800
       [] k = "DoStatement" -> 1000
       [] k = "SwitchStatement" /\ gen # "calculator" -> Len(nd.a) * 500
       [] k = "TryStatement" /\ gen # "calculator" ->
            (IF nd.x[2] # 0
             THEN 2000 + (IF nodeOf(nd.x[2]).flag = "var" THEN 500 ELSE 0) ELSE 0)
            + (IF nd.x[3] # 0 THEN 1500 ELSE 0)
            + 1000
       [] k = "ThrowStatement" /\ gen # "calculator" -> 1000
       [] OTHER -> 0
      ofNode(nd) == term(nd, nd.kind)
  IN ofNode(nodeOf(s))

\* let score = 1; score += child.score ...; the calculator generation
\* multiplies a let declaration by 1 + 0.5 * declarationCount instead of
\* adding 0.5.
StatementFormula(s, ctx, gen) ==
  LET score(nd, sum) ==
        IF gen = "calculator" /\ nd.kind = "VariableStatement" /\ nd.flag = "let"
        THEN (sum * (2 + nd.n)) \div 2 ELSE sum
      result(calls, r) ==
        Out(Result(score(nodeOf(s),
                         1000 + WeightedSum(calls, r.results) + StatementTerm(s, gen)),
                   s, r.results, getNodeLineInfo(s), FALSE, FALSE),
            r.ctx)
      scored(calls) == result(calls, ScoreEach(calls, ctx, <<>>))
  IN scored(StatementCalls(s, gen))

\* complexity/statement.ts 434-477: the calculator chosen by statement kind.
selectStatementCalculator(s, ctx) == StatementFormula(s, ctx, "calculator")

\* complexity/statement.ts 485-500: depth++, try { calculator() } finally { depth-- }.
calculateStatementNodeComplexity(s, ctx) ==
  Leave(selectStatementCalculator(s, [ctx EXCEPT !.currentDepth = @ + 1]))

\* complexity/statement.ts 774-1081: the if-chain over statement kinds.
calculateStatementNodeComplexityPattern(s, ctx) == StatementFormula(s, ctx, "pattern")

\* complexity.ts 816-1126: the same if-chain, then context.currentDepth--.
calculateStatementNodeComplexityLegacy(s, ctx) ==
  Leave(StatementFormula(s, ctx, "legacy"))

\* complexity/statement.ts 80-101.
calculateStatementComplexityCalculator(s, ctx) ==
  LET body(earlyResult) ==
        IF earlyResult # Null THEN Out(earlyResult, ctx)
        ELSE Leave(calculateStatementNodeComplexity(s, Enter(s, ctx)))
  IN body(checkEarlyReturnForStatement(s, ctx))

\* complexity/statement.ts 690-715.
calculateStatementComplexityPattern(s, ctx) ==
  IF ctx.currentDepth >= ctx.maxDepth THEN Out(createTruncatedResult(s), ctx)
  ELSE IF s \in ctx.visitedNodes THEN Out(createCircularReferenceStatementResult(s), ctx)
  ELSE Leave(calculateStatementNodeComplexityPattern(s, Enter(s, ctx)))

\* complexity.ts 732-757.
calculateStatementComplexityLegacy(s, ctx) ==
  IF ctx.currentDepth >= ctx.maxDepth THEN Out(createTruncatedResult(s), ctx)
  ELSE IF s \in ctx.visitedNodes THEN Out(createCircularReferenceStatementResult(s), ctx)
  ELSE Leave(calculateStatementNodeComplexityLegacy(s, Enter(s, ctx)))

calculateStatementComplexityWithPattern(s, ctx) ==
  Observe("stmt", s, ctx,
    CASE impl = "calculator" -> calculateStatementComplexityCalculator(s, ctx)
      [] impl = "pattern"    -> calculateStatementComplexityPattern(s, ctx)
      [] impl = "legacy"     -> calculateStatementComplexityLegacy(s, ctx))

calculateStatementComplexity(s, ctx) == calculateStatementComplexityWithPattern(s, ctx)

createCircularReferenceBlockResult(b) == Result(1000, b, <<>>, 0, FALSE, TRUE)

\* Faulty variant: the block scorer without its visited check.
calculateBlockComplexity_NoVisitedCheck(b, ctx) ==
  Observe("block", b, ctx,
    IF ctx.currentDepth >= ctx.maxDepth THEN Out(createTruncatedResult(b), ctx)
    ELSE LET result(nd, r) ==
               Out(Result(1000 + SumScores(r.results) + Len(nd.a) * 100,
                          b, r.results, getNodeLineInfo(b), FALSE, FALSE),
                   r.ctx)
             scored(nd) == result(nd, ScoreEach(S(nd.a), Enter(b, ctx), <<>>))
         IN Leave(scored(nodeOf(b))))

\* complexity/block.ts 23-68 (complexity.ts 1134-1187 is the same code).
calculateBlockComplexity(b, ctx) ==
  Observe("block", b, ctx,
    IF ctx.currentDepth >= ctx.maxDepth THEN Out(createTruncatedResult(b), ctx)
    ELSE IF b \in ctx.visitedNodes THEN Out(createCircularReferenceBlockResult(b), ctx)
    ELSE LET result(nd, r) ==
               Out(Result(1000 + SumScores(r.results) + Len(nd.a) * 100,
                          b, r.results, getNodeLineInfo(b), FALSE, FALSE),
                   r.ctx)
             scored(nd) == result(nd, ScoreEach(S(nd.a), Enter(b, ctx), <<>>))
         IN Leave(scored(nodeOf(b))))

-----------------------------------------------------------------------------
(* File scorer (complexity/utils.ts 163-220) and the facade (node.ts)      *)

\* weight of a top-level statement, in hundredths.
StatementWeight(s) ==
  LET weight(nd) ==
        IF nd.kind = "ClassDeclaration"
          THEN 100 + nd.n * 10 + (IF nd.flag = "extends" THEN 50 ELSE 0)
        ELSE IF nd.kind = "InterfaceDeclaration" THEN 100 + nd.n * 5
        ELSE IF nd.kind = "FunctionDeclaration" THEN 80 + nd.n * 5
        ELSE 100
  IN weight(nodeOf(s))

\* Faulty variant: score = stmtComplexity.score * weight (assignment, not +=).
FileSum_Assign(stmts, rs) ==
  IF stmts = <<>> THEN 0
  ELSE (rs[Len(rs)].score * StatementWeight(stmts[Len(stmts)])) \div 100

RECURSIVE FileSum(_, _)
\* score += stmtComplexity.score * weight, over the statements in order.
FileSum(stmts, rs) ==
  IF stmts = <<>> THEN 0
  ELSE (Head(rs).score * StatementWeight(Head(stmts))) \div 100
       + FileSum(Tail(stmts), Tail(rs))

\* The SourceFile node has id 0.
calculateFileComplexity(stmts, opts) ==
  LET result(r) ==
        Out([score |-> 1000 + FileSum(stmts, r.results), nodeType |-> "SourceFile",
             children |-> r.results, lineInfo |-> 0,
             metadata |-> [truncated |-> FALSE, circular |-> FALSE]],
            r.ctx)
  IN result(ScoreEach(S(stmts), createComplexityContext(opts), <<>>))

\* Faulty variant: an unsupported node gets the fallback result instead of the Error.
calculateNodeComplexity_Fallback(n, stmts, ctx) ==
  LET k == IF n = 0 THEN "SourceFile" ELSE kindOf(n)
      Returned(o) == [kind |-> "returned", res |-> o.res, ctx |-> o.ctx]
  IN IF k = "SourceFile"
       THEN [kind |-> "returned",
             res |-> calculateFileComplexity(stmts, [maxDepth |-> 0]).res, ctx |-> ctx]
     ELSE IF k = "Block" THEN Returned(calculateBlockComplexity(n, ctx))
     ELSE IF k \in StatementKinds THEN Returned(calculateStatementComplexity(n, ctx))
     ELSE IF k \in ExpressionKinds THEN Returned(calculateExpressionComplexity(n, ctx))
     ELSE [kind |-> "returned", res |-> Result(1000, n, <<>>, 0, FALSE, FALSE), ctx |-> ctx]

\* node.ts (complexity/statement.ts 1875-1921): dispatch on the node's
\* category; a node that is neither file, block, statement nor expression
\* is refused with an Error.
calculateNodeComplexity(n, stmts, ctx) ==
  LET k == IF n = 0 THEN "SourceFile" ELSE kindOf(n)
      Returned(o) == [kind |-> "returned", res |-> o.res, ctx |-> o.ctx]
  IN IF k = "SourceFile"
       THEN [kind |-> "returned",
             res |-> calculateFileComplexity(stmts, [maxDepth |-> 0]).res, ctx |-> ctx]
     ELSE IF k = "Block" THEN Returned(calculateBlockComplexity(n, ctx))
     ELSE IF k \in StatementKinds THEN Returned(calculateStatementComplexity(n, ctx))
     ELSE IF k \in ExpressionKinds THEN Returned(calculateExpressionComplexity(n, ctx))
     ELSE [kind |-> "threw", res |-> Null, ctx |-> ctx]

-----------------------------------------------------------------------------
(* Hotspot utilities (complexity/utils.ts 15-69).  A node of a result tree *)
(* is identified by its path from the root (the object identity of the     *)
(* source), so a list of results is a list of paths.                       *)

RECURSIVE At(_, _)
At(r, path) == IF path = <<>> THEN r ELSE At(r.children[Head(path)], Tail(path))

RECURSIVE Insert_TiesFirst(_, _, _)
\* Faulty variant: an unstable sort that puts p before its ties.
Insert_TiesFirst(r, sorted, p) ==
  IF sorted = <<>> THEN <<p>>
  ELSE IF At(r, Head(sorted)).score > At(r, p).score
       THEN <<Head(sorted)>> \o Insert_TiesFirst(r, Tail(sorted), p)
       ELSE <<p>> \o sorted

RECURSIVE Insert(_, _, _)
\* Array.prototype.sort with (a, b) => b.score - a.score is stable: p goes
\* after every element whose score is >= its own.
Insert(r, sorted, p) ==
  IF sorted = <<>> THEN <<p>>
  ELSE IF At(r, Head(sorted)).score >= At(r, p).score
       THEN <<Head(sorted)>> \o Insert(r, Tail(sorted), p)
       ELSE <<p>> \o sorted

RECURSIVE SortByScore(_, _, _)
SortByScore(r, list, acc) ==
  IF list = <<>> THEN acc
  ELSE SortByScore(r, Tail(list), Insert(r, acc, Head(list)))

RECURSIVE extractHotspotsAt(_, _, _)
RECURSIVE HotspotsOfChildren(_, _, _, _)

\* hotspots.push(...extractHotspots(child, threshold)) for child i, i+1, ...
HotspotsOfChildren(r, path, i, threshold) ==
  IF i > Len(At(r, path).children) THEN <<>>
  ELSE extractHotspotsAt(r, Append(path, i), threshold)
       \o HotspotsOfChildren(r, path, i + 1, threshold)

\* Faulty variant: result.score > threshold.
extractHotspotsAt_Strict(r, path, threshold) ==
  LET own == IF At(r, path).score > threshold THEN <<path>> ELSE <<>>
  IN SortByScore(r, own \o HotspotsOfChildren(r, path, 1, threshold), <<>>)

extractHotspotsAt(r, path, threshold) ==
  LET own == IF At(r, path).score >= threshold THEN <<path>> ELSE <<>>
  IN SortByScore(r, own \o HotspotsOfChildren(r, path, 1, threshold), <<>>)

extractHotspots(r, threshold) == extractHotspotsAt(r, <<>>, threshold)

RECURSIVE flattenAt(_, _)
RECURSIVE FlattenChildren(_, _, _)
FlattenChildren(r, path, i) ==
  IF i > Len(At(r, path).children) THEN <<>>
  ELSE flattenAt(r, Append(path, i)) \o FlattenChildren(r, path, i + 1)

flattenAt(r, path) == <<path>> \o FlattenChildren(r, path, 1)

\* flattenComplexityResult: every node of the tree, root first, pre-order.
flattenComplexityResult(r) == flattenAt(r, <<>>)

RECURSIVE processNode_DirectChildren(_, _, _)
\* Faulty variant: the walk stops below the root's children.
processNode_DirectChildren(r, path, i) ==
  IF i > Len(At(r, path).children) THEN [count |-> 0, depth |-> Len(path) + 1]
  ELSE LET counted(rest) ==
             [count |-> 1 + rest.count, depth |-> Max(Len(path) + 2, rest.depth)]
       IN counted(processNode_DirectChildren(r, path, i + 1))

RECURSIVE processNode(_, _, _)
\* processNode(node, depth) of summarizeComplexityResult, from child i on:
\* the nodeCount++ it performs and the largest depth it records.  The depth
\* of the node at path is Len(path) + 1.
processNode(r, path, i) ==
  IF i > Len(At(r, path).children) THEN [count |-> 0, depth |-> Len(path) + 1]
  ELSE LET counted(below, rest) ==
             [count |-> 1 + below.count + rest.count,
              depth |-> Max(below.depth, rest.depth)]
       IN counted(processNode(r, Append(path, i), 1), processNode(r, path, i + 1))

\* sortedNodes.slice(0, 5)
Slice5(list) == SubSeq(list, 1, IF Len(list) < 5 THEN Len(list) ELSE 5)

summarizeComplexityResult(r) ==
  LET summaryOf(walk) ==
        [totalScore |-> r.score,
         nodeCount |-> 1 + walk.count,
         maxDepth |-> walk.depth,
         averageScore |-> r.score \div (1 + walk.count),
         hotspots |-> Slice5(SortByScore(r, flattenComplexityResult(r), <<>>))]
  IN summaryOf(processNode(r, <<>>, 1))

-----------------------------------------------------------------------------
(* Scoring runs: a file that grows by one statement at a time, hotspot     *)
(* extraction over its result, and facade calls that share one context.    *)

Generations == {"calculator", "pattern", "legacy"}
\* maxDepth 0 stands for an options object without maxDepth (default 20).
DepthOptions == {0, 1, 2, 3}

NoOutcome == [kind |-> "none", node |-> 0, res |-> Null, depthBefore |-> 0,
              visitedBefore |-> FALSE, calls |-> 0]
NoHotspots == [threshold |-> 0, list |-> <<>>, asked |-> FALSE]
NoSummary == [value |-> Null, asked |-> FALSE]

InRange(seq) == {seq[i] : i \in 1..Len(seq)}

\* ComplexityWeights of the comparator (types.ts 49-56), in tenths
DEFAULT_COMPLEXITY_WEIGHTS ==
  [variableMutabilityWeight |-> 15, scopeComplexityWeight |-> 10,
   assignmentWeight |-> 12, functionComplexityWeight |-> 10,
   conditionalComplexityWeight |-> 20, exceptionHandlingWeight |-> 15]

NoComparison == [codeA |-> 0, codeB |-> 0, weights |-> DEFAULT_COMPLEXITY_WEIGHTS,
                 scoreA |-> 0, scoreB |-> 0, betterCode |-> "", called |-> FALSE]

CompareIdle == comparison = NoComparison /\ previous = NoComparison

NoResolution == [basePath |-> <<>>, importPath |-> <<>>, resolved |-> <<>>, called |-> FALSE]

NoLint == [program |-> <<>>, cursor |-> 0, diagnostics |-> <<>>]
NoAggregation ==
  [pc |-> "idle", input |-> <<>>, modules |-> <<>>, calculated |-> {}, processing |-> {},
   frames |-> <<>>, cursor |-> 0, log |-> <<>>]
SideIdle == resolution = NoResolution /\ lint = NoLint /\ aggregation = NoAggregation

ModulesIdle ==
  /\ filePaths = <<>>
  /\ fileContents = <<>>
  /\ modules = <<>>
  /\ pc = "idle"
  /\ order = <<>>
  /\ stack = <<>>
  /\ calculatedModules = {}
  /\ processingModules = {}
  /\ cursor = 0
  /\ reached = {}
  /\ results = <<>>

\* The state before any file was scored.
NotScored(opts) == Out(Null, createComplexityContext(opts))

ScoringStart(stmts) ==
  /\ impl \in Generations
  /\ options \in [maxDepth : DepthOptions]
  /\ sourceFile = stmts
  /\ fileResult = NotScored(options)
  /\ prevFileScore = 0
  /\ context = createComplexityContext(options)
  /\ outcome = NoOutcome
  /\ hotspots = NoHotspots
  /\ summary = NoSummary

InitFile == ScoringStart(<<>>) /\ ModulesIdle /\ CompareIdle /\ SideIdle

\* The caller parses P ++ s and scores the file again.
AppendStatement(s) ==
  /\ Len(sourceFile) < MaxStatements
  /\ s \notin InRange(sourceFile)
  /\ sourceFile' = Append(sourceFile, s)
  /\ fileResult' = calculateFileComplexity(sourceFile', options)
  /\ prevFileScore' = calculateFileComplexity(sourceFile, options).res.score
  /\ hotspots' = NoHotspots
  /\ summary' = NoSummary
  /\ UNCHANGED <<impl, options, context, outcome, moduleVars, compareVars, sideVars>>

\* extractHotspots(fileResult, threshold)
ExtractHotspots(threshold) ==
  /\ fileResult.res # Null
  /\ ~hotspots.asked
  /\ hotspots' = [threshold |-> threshold,
                  list |-> extractHotspots(fileResult.res, threshold),
                  asked |-> TRUE]
  /\ UNCHANGED <<impl, sourceFile, options, fileResult, prevFileScore, context,
                 outcome, summary, moduleVars, compareVars, sideVars>>

\* summarizeComplexityResult(fileResult)
Summarize ==
  /\ fileResult.res # Null
  /\ ~summary.asked
  /\ summary' = [value |-> summarizeComplexityResult(fileResult.res), asked |-> TRUE]
  /\ UNCHANGED <<impl, sourceFile, options, fileResult, prevFileScore, context,
                 outcome, hotspots, moduleVars, compareVars, sideVars>>

\* Thresholds: the scores present in the tree, and one above the root's.
Thresholds(r) ==
  {At(r, p).score : p \in InRange(flattenComplexityResult(r))} \cup {r.score + 1}

NextFile ==
  \/ \E s \in StatementRoots : AppendStatement(s)
  \/ \E t \in Thresholds(fileResult.res) : ExtractHotspots(t)
  \/ Summarize

SpecFile == InitFile /\ [][NextFile]_vars

InitNode ==
  /\ \E stmts \in {<<>>, <<9>>} : ScoringStart(stmts)
  /\ ModulesIdle
  /\ CompareIdle
  /\ SideIdle

\* calculateNodeComplexity(node, context): node 0 is the source file.
ScoreNode(n) ==
  LET returns(o) ==
        /\ context' = o.ctx
        /\ outcome' = [kind |-> o.kind, node |-> n, res |-> o.res,
                       depthBefore |-> context.currentDepth,
                       visitedBefore |-> n \in context.visitedNodes,
                       calls |-> outcome.calls + 1]
  IN /\ outcome.calls < MaxCalls
     /\ returns(calculateNodeComplexity(n, sourceFile, [context EXCEPT !.trace = <<>>]))
     /\ UNCHANGED <<impl, sourceFile, options, fileResult, prevFileScore,
                    hotspots, summary, moduleVars, compareVars, sideVars>>

\* const context = createComplexityContext(sourceFile, options)
NewContext ==
  /\ context.visitedNodes # {}
  /\ context' = createComplexityContext(options)
  /\ outcome' = NoOutcome
  /\ UNCHANGED <<impl, sourceFile, options, fileResult, prevFileScore,
                 hotspots, summary, moduleVars, compareVars, sideVars>>

\* The nodes callers hand to the facade: the file, statements, blocks,
\* expressions, clauses, and the malformed statement.
FacadeNodes == {0, 1, 2, 5, 9, 10, 13, 16, 18, 21, 23, 32, 36, 39, 41, 46}

NextNode ==
  \/ \E n \in FacadeNodes : ScoreNode(n)
  \/ NewContext

SpecNode == InitNode /\ [][NextNode]_vars

-----------------------------------------------------------------------------
(* Module dependency graph analyser (module.ts, complexity/statement.ts    *)
(* lines 1923-2650).  A string is the sequence of its pieces: "/" and "."  *)
(* are pieces of their own, ".ts" and ".js" are the extensions, any other  *)
(* piece is a name without "/" or ".".  "./b.ts" is <<".", "/", "b",       *)
(* ".ts">> and "../a" is <<".", ".", "/", "a">>.                           *)

startsWith(str, piece) == str # <<>> /\ Head(str) = piece
endsWith(str, piece) == str # <<>> /\ str[Len(str)] = piece

\* String.prototype.lastIndexOf, 1-based; 0 when the piece is absent.
lastIndexOf(str, piece) ==
  LET at == {i \in 1..Len(str) : str[i] = piece}
  IN IF at = {} THEN 0 ELSE CHOOSE i \in at : \A j \in at : j <= i

RECURSIVE split(_, _, _)
\* path.split("/"): cur is the part being read, acc the parts read.
split(str, cur, acc) ==
  IF str = <<>> THEN Append(acc, cur)
  ELSE IF Head(str) = "/" THEN split(Tail(str), <<>>, Append(acc, cur))
  ELSE split(Tail(str), Append(cur, Head(str)), acc)

RECURSIVE join(_)
\* parts.join("/")
join(parts) ==
  IF parts = <<>> THEN <<>>
  ELSE IF Len(parts) = 1 THEN parts[1]
  ELSE parts[1] \o <<"/">> \o join(Tail(parts))

RECURSIVE normalizeParts(_, _)
normalizeParts(parts, result) ==
  IF parts = <<>> THEN result
  ELSE LET part == Head(parts)
       IN IF part = <<".">> \/ part = <<>>
            THEN normalizeParts(Tail(parts), result)
          ELSE IF part = <<".", ".">>
            THEN normalizeParts(Tail(parts),
                   IF result = <<>> THEN <<>> ELSE SubSeq(result, 1, Len(result) - 1))
          ELSE normalizeParts(Tail(parts), Append(result, part))

\* complexity/statement.ts 2151-2169
normalizePath(path) == join(normalizeParts(split(path, <<>>, <<>>), <<>>))

\* complexity/statement.ts 2123-2144
resolveImportPath(basePath, importPath) ==
  LET baseDir  == SubSeq(basePath, 1, lastIndexOf(basePath, "/"))
      resolved == normalizePath(baseDir \o importPath)
      withExt  == IF ~endsWith(resolved, ".ts") /\ ~endsWith(resolved, ".js")
                  THEN Append(resolved, ".ts") ELSE resolved
  IN IF endsWith(withExt, "/") THEN withExt \o <<"index", ".ts">> ELSE withExt

\* An import declaration is [specifier, symbols]: the module specifier text
\* and the number of symbols its import clause binds.
\* complexity/statement.ts 1992-2012; NoPath is the null it returns.
NoPath == <<>>
extractDependencyFromImport(statement, filePath) ==
  IF ~startsWith(statement.specifier, ".") THEN NoPath
  ELSE resolveImportPath(filePath, statement.specifier)

RECURSIVE analyzeDependencies(_, _)
\* complexity/statement.ts 2020-2039, over the import declarations of a file.
analyzeDependencies(imports, filePath) ==
  IF imports = <<>> THEN <<>>
  ELSE LET dependency == extractDependencyFromImport(Head(imports), filePath)
           rest == analyzeDependencies(Tail(imports), filePath)
       IN IF dependency # NoPath THEN <<dependency>> \o rest ELSE rest

RECURSIVE analyzeImports(_)
\* complexity/statement.ts 2084-2115
analyzeImports(imports) ==
  IF imports = <<>> THEN [libraryImports |-> 0, localImports |-> 0]
  ELSE LET rest == analyzeImports(Tail(imports))
           st   == Head(imports)
       IN IF startsWith(st.specifier, ".")
            THEN [rest EXCEPT !.localImports = @ + st.symbols]
          ELSE [rest EXCEPT !.libraryImports = @ + st.symbols]

RECURSIVE countLetDeclarations(_)
\* complexity/statement.ts 2463-2472: the let declarations in the subtrees
\* of the given nodes.
countLetDeclarations(ids) ==
  IF ids = <<>> THEN 0
  ELSE LET nd == nodeOf(Head(ids))
           own == IF nd.kind = "VariableStatement" /\ nd.flag = "let" THEN nd.n ELSE 0
       IN own + countLetDeclarations(Present(nd.x) \o nd.a)
              + countLetDeclarations(Tail(ids))

\* A file's content is a string: "" or a source text, here
\* [imports, body] with the body's statements as node ids.
NoContent == [text |-> "undefined", imports |-> <<>>, body |-> <<>>]
EmptyContent == [text |-> "", imports |-> <<>>, body |-> <<>>]
Source(imports, body) == [text |-> "source", imports |-> imports, body |-> body]

\* ts.createSourceFile(...).statements
statementsOf(content) ==
  [i \in 1..Len(content.imports) |-> importNode(i)] \o content.body

\* complexity/statement.ts 2436-2498; the result keeps score and children.
calculateModuleFileComplexity(content, opts) ==
  LET importComplexity(counts) == counts.libraryImports * 3000 + counts.localImports * 1000
      multiplied(score, letDeclarationCount) ==
        IF letDeclarationCount > 0 THEN (score * (2 + letDeclarationCount)) \div 2
        ELSE score
      withImports(result) ==
        [score |-> multiplied(result.score + importComplexity(analyzeImports(content.imports)),
                              countLetDeclarations(content.body)),
         children |-> [i \in 1..Len(result.children) |-> result.children[i].score]]
  IN withImports(calculateFileComplexity(statementsOf(content), opts).res)

\* complexity/statement.ts 2514-2544
createModuleDependency(filePath, content, opts) ==
  LET module(fileComplexity) ==
        [path |-> filePath,
         dependencies |-> analyzeDependencies(content.imports, filePath),
         fileComplexity |-> fileComplexity,
         moduleComplexity |-> fileComplexity.score,
         visited |-> FALSE,
         temporaryMark |-> FALSE]
  IN module(calculateModuleFileComplexity(content, opts))

\* Map.get on a map filled by moduleMap.set(module.path, module) in array
\* order: the index of the last module with that path, 0 when there is none.
moduleMapGet(mods, path) ==
  LET at == {i \in 1..Len(mods) : mods[i].path = path}
  IN IF at = {} THEN 0 ELSE CHOOSE i \in at : \A j \in at : j <= i

\* Faulty variant: the dependency lists are left as analysed.
resolveDependencies_NoFilter(mods) == mods

\* complexity/statement.ts 2551-2561
resolveDependencies(mods) ==
  [i \in 1..Len(mods) |->
     [mods[i] EXCEPT !.dependencies =
        SelectSeq(@, LAMBDA depPath : moduleMapGet(mods, depPath) # 0)]]

\* complexity/statement.ts 2181-2194
initializeModuleMap(mods) ==
  [i \in 1..Len(mods) |-> [mods[i] EXCEPT !.visited = FALSE, !.temporaryMark = FALSE]]

\* Faulty variant: an edge to a module already sorted is removed as well.
handleCircularDependency_AlsoVisited(module, depPath, depModule) ==
  IF depModule.temporaryMark \/ depModule.visited
    THEN [found |-> TRUE,
          dependencies |-> SelectSeq(module.dependencies, LAMBDA q : q # depPath)]
  ELSE [found |-> FALSE, dependencies |-> module.dependencies]

\* Faulty variant: the cycle is reported but the edge is kept.
handleCircularDependency_KeepEdge(module, depPath, depModule) ==
  [found |-> depModule.temporaryMark, dependencies |-> module.dependencies]

\* complexity/statement.ts 2203-2214: whether a cycle was found, and
\* module.dependencies afterwards.
handleCircularDependency(module, depPath, depModule) ==
  IF depModule.temporaryMark
    THEN [found |-> TRUE,
          dependencies |-> SelectSeq(module.dependencies, LAMBDA q : q # depPath)]
  ELSE [found |-> FALSE, dependencies |-> module.dependencies]

Reverse(seq) == [i \in 1..Len(seq) |-> seq[Len(seq) + 1 - i]]

\* complexity/statement.ts 2233; the faulty variant leaves the mark unset.
markTemporary_Omitted(module) == module

markTemporary(module) == [module EXCEPT !.temporaryMark = TRUE]

\* Faulty variant: a module already sorted is entered again.
visitModule_IgnoresVisited(mods, stk, i) ==
  IF mods[i].temporaryMark
    THEN [modules |-> mods, stack |-> stk, threw |-> FALSE]
  ELSE IF Len(stk) >= MaxStack
    THEN [modules |-> mods, stack |-> stk, threw |-> TRUE]
  ELSE [modules |-> [mods EXCEPT ![i] = markTemporary(@)],
        stack |-> Append(stk, [module |-> i, deps |-> mods[i].dependencies, next |-> 1]),
        threw |-> FALSE]

\* The call visitModule(modules[i], ...) up to the start of its loop
\* (complexity/statement.ts 2222-2233): the early return, or a new frame
\* [module, deps, next] iterating the dependencies array as it is now.  A
\* call the runtime's stack has no room for raises a RangeError.
visitModule(mods, stk, i) ==
  IF mods[i].temporaryMark \/ mods[i].visited
    THEN [modules |-> mods, stack |-> stk, threw |-> FALSE]
  ELSE IF Len(stk) >= MaxStack
    THEN [modules |-> mods, stack |-> stk, threw |-> TRUE]
  ELSE [modules |-> [mods EXCEPT ![i] = markTemporary(@)],
        stack |-> Append(stk, [module |-> i, deps |-> mods[i].dependencies, next |-> 1]),
        threw |-> FALSE]

\* const maxDepth = 10 of calculateModuleComplexity
AggregationMaxDepth == 10

\* The double NaN, and the two operations that can yield it.
NaN == 0 - 1
Divide(x, d) == IF x = NaN \/ d = 0 THEN NaN ELSE x \div d
Plus(x, y) == IF x = NaN \/ y = NaN THEN NaN ELSE x + y
\* value || 0
OrZero(value) == IF value = NaN THEN 0 ELSE value

\* Math.sqrt(n) in hundredths, rounded down.
sqrt(n) == CHOOSE r \in 0..(100 * n) : r * r <= 10000 * n /\ (r + 1) * (r + 1) > 10000 * n

\* Faulty variant: the test of the recursion depth is left out.
shouldReturnEarly_NoCeiling(st, m, depth) ==
  LET module == st.modules[m]
  IN IF module.path \in st.calculated
       THEN [early |-> TRUE, value |-> OrZero(module.moduleComplexity), line |-> "calculated"]
     ELSE IF module.path \in st.processing
       THEN [early |-> TRUE, value |-> OrZero(module.moduleComplexity), line |-> "processing"]
     ELSE [early |-> FALSE, value |-> 0, line |-> "null"]

\* complexity/statement.ts 2306-2332; early = FALSE is the null, and line
\* names the return statement taken.
shouldReturnEarly(st, m, depth) ==
  LET module == st.modules[m]
  IN IF depth > AggregationMaxDepth
       THEN [early |-> TRUE, value |-> OrZero(module.moduleComplexity), line |-> "maxDepth"]
     ELSE IF module.path \in st.calculated
       THEN [early |-> TRUE, value |-> OrZero(module.moduleComplexity), line |-> "calculated"]
     ELSE IF module.path \in st.processing
       THEN [early |-> TRUE, value |-> OrZero(module.moduleComplexity), line |-> "processing"]
     ELSE [early |-> FALSE, value |-> 0, line |-> "null"]

RECURSIVE SumSeq(_)
SumSeq(ns) == IF ns = <<>> THEN 0 ELSE Head(ns) + SumSeq(Tail(ns))

\* Faulty variant: the children's scores are left out.
calculateFileNodeComplexity_ScoreOnly(module) == module.fileComplexity.score

\* complexity/statement.ts 2335-2349
calculateFileNodeComplexity(module) ==
  module.fileComplexity.score + SumSeq(module.fileComplexity.children)

RECURSIVE calculateDependencyComplexity(_, _, _)
RECURSIVE calculateDependenciesComplexity(_, _, _, _)

\* complexity/statement.ts 2352-2376, from the k-th dependency of module m
\* on; st is [modules, calculated, processing].
calculateDependenciesComplexity(st, m, depth, k) ==
  LET sum(value, rest) == [value |-> Plus(value, rest.value), st |-> rest.st]
      add(one) == sum(one.value, calculateDependenciesComplexity(one.st, m, depth, k + 1))
      turn(depPath, d) ==
        IF d = 0 \/ depPath \in st.processing
          THEN calculateDependenciesComplexity(st, m, depth, k + 1)
        ELSE add(calculateDependencyComplexity(st, d, depth + 1))
      of(depPath) == turn(depPath, moduleMapGet(st.modules, depPath))
  IN IF k > Len(st.modules[m].dependencies) THEN [value |-> 0, st |-> st]
     ELSE of(st.modules[m].dependencies[k])

\* complexity/statement.ts 2379-2416
calculateDependencyComplexity(st, m, depth) ==
  LET finalComplexity(complexity, dependencyComplexity, n) ==
        IF n > 0 THEN Plus(complexity, Divide(dependencyComplexity * 50, sqrt(n)))
        ELSE complexity
      set(module, after, final) ==
        [value |-> final,
         st |-> [modules |-> [after.modules EXCEPT ![m].moduleComplexity = final],
                 calculated |-> after.calculated \cup {module.path},
                 processing |-> after.processing \ {module.path}]]
      finish(module, deps) ==
        set(module, deps.st,
            finalComplexity(calculateFileNodeComplexity(module), deps.value,
                            Len(module.dependencies)))
      run(module) ==
        finish(module,
               calculateDependenciesComplexity(
                 [st EXCEPT !.processing = @ \cup {module.path}], m, depth, 1))
      body(earlyReturnValue) ==
        IF earlyReturnValue.early THEN [value |-> earlyReturnValue.value, st |-> st]
        ELSE run(st.modules[m])
  IN body(shouldReturnEarly(st, m, depth))

\* complexity/statement.ts 2568-2578
createModuleComplexityResult(module) ==
  [path |-> module.path,
   fileComplexity |-> module.fileComplexity.score,
   moduleComplexity |-> OrZero(module.moduleComplexity),
   dependencies |-> module.dependencies,
   details |-> module.fileComplexity]

\* Faulty variant: the DFS result is returned as built.
sortedModules_NotReversed(result) == result

\* complexity/statement.ts 2277: return result.reverse()
sortedModules(result) == Reverse(result)

RECURSIVE visitModuleFrom(_, _)
RECURSIVE visitDependencies(_, _, _, _)

\* The loop of visitModule (complexity/statement.ts 2236-2248) over the
\* array deps from its k-th element on; s is [modules, result].
visitDependencies(s, i, deps, k) ==
  LET turn(depPath, d) ==
        IF d = 0 THEN s
        ELSE LET cycle == handleCircularDependency(s.modules[i], depPath, s.modules[d])
             IN IF cycle.found
                  THEN [s EXCEPT !.modules[i].dependencies = cycle.dependencies]
                ELSE visitModuleFrom(s, d)
  IN IF k > Len(deps) THEN s
     ELSE visitDependencies(turn(deps[k], moduleMapGet(s.modules, deps[k])), i, deps, k + 1)

\* visitModule as one call (complexity/statement.ts 2222-2256)
visitModuleFrom(s, i) ==
  LET exit(after) ==
        [modules |-> [after.modules EXCEPT ![i].visited = TRUE, ![i].temporaryMark = FALSE],
         result |-> Append(after.result, i)]
  IN IF s.modules[i].temporaryMark \/ s.modules[i].visited THEN s
     ELSE exit(visitDependencies([s EXCEPT !.modules[i] = markTemporary(@)],
                                 i, s.modules[i].dependencies, 1))

RECURSIVE visitUnvisited(_, _)
\* The loop of topologicalSort (2270-2274) from the i-th module on.
visitUnvisited(s, i) ==
  IF i > Len(s.modules) THEN s
  ELSE visitUnvisited(IF ~s.modules[i].visited THEN visitModuleFrom(s, i) ELSE s, i + 1)

\* complexity/statement.ts 2263-2278 as one call: the modules as the sort
\* leaves them and the returned list, as indices into modules.
topologicalSort(mods) ==
  LET sorted(s) == [modules |-> s.modules, order |-> sortedModules(s.result)]
  IN sorted(visitUnvisited([modules |-> initializeModuleMap(mods), result |-> <<>>], 1))

\* a sequence given as a function, as the tuple of its elements
Array(seq) == SubSeq(seq, 1, Len(seq))

RECURSIVE aggregateFrom(_, _, _)
\* The loop over [...modules].reverse() (2420-2424) from its k-th turn on.
aggregateFrom(st, sorted, k) ==
  LET m == Reverse(sorted)[k]
  IN IF k > Len(sorted) THEN st
     ELSE aggregateFrom(IF st.modules[m].path \notin st.calculated
                          THEN calculateDependencyComplexity(st, m, 0).st ELSE st,
                        sorted, k + 1)

\* complexity/statement.ts 2288-2302: the array with every module's
\* moduleComplexity set to its file result's score.
initialModuleComplexity(mods) ==
  LET initial(i) == [mods[i] EXCEPT !.moduleComplexity = mods[i].fileComplexity.score]
  IN Array([i \in 1..Len(mods) |-> initial(i)])

\* complexity/statement.ts 2285-2427 as one call on the list whose k-th
\* element is mods[sorted[k]]: the array it returns.
calculateModuleComplexity(mods, sorted) ==
  aggregateFrom([modules |-> initialModuleComplexity(mods),
                 calculated |-> {}, processing |-> {}],
                Array(sorted), 1).modules

\* Lines 2609-2618 of calculateModulesComplexity as one call, on the
\* modules its first loop built.
analyzeModules(mods) ==
  LET format(withComplexity, sorted) ==
        [k \in 1..Len(sorted) |-> createModuleComplexityResult(withComplexity[sorted[k]])]
      aggregate(s) == format(calculateModuleComplexity(s.modules, s.order), s.order)
  IN aggregate(topologicalSort(resolveDependencies(mods)))

-----------------------------------------------------------------------------
(* calculateModulesComplexity (complexity/statement.ts 2587-2619), step by *)
(* step                                                                    *)

FileA == <<"a", ".ts">>
FileB == <<"b", ".ts">>
FileC == <<"lib", "/", "c", ".ts">>
Files == {FileA, FileB, FileC}
FileOrders == {<<FileA, FileB, FileC>>, <<FileC, FileB, FileA>>}

Import(specifier, symbols) == [specifier |-> specifier, symbols |-> symbols]

\* The import declarations a file's text is written with.
ImportMenu(f) ==
  IF f = FileA THEN {Import(<<".", "/", "b", ".ts">>, 1),        \* "./b.ts"
                     Import(<<".", "/", "b">>, 2),               \* "./b"
                     Import(<<".", "/", "lib", "/", "c">>, 1)}   \* "./lib/c"
  ELSE IF f = FileB THEN {Import(<<".", "/", "a", ".ts">>, 1),   \* "./a.ts"
                          Import(<<".", "/", "x", ".ts">>, 1),   \* "./x.ts", no such file
                          Import(<<"typescript">>, 2)}           \* a package
  ELSE {Import(<<".", ".", "/", "a", ".ts">>, 1),                \* "../a.ts"
        Import(<<".", "/", "c", ".ts">>, 1),                     \* "./c.ts", the file itself
        Import(<<".", ".", "/", "b">>, 1)}                       \* "../b"

BodyOf(f) == IF f = FileA THEN <<>> ELSE IF f = FileB THEN <<5>> ELSE <<9>>

ImportLists(f) ==
  {is \in UNION {[1..n -> ImportMenu(f)] : n \in 0..MaxImports} :
     \A i, j \in DOMAIN is : is[i] = is[j] => i = j}

Contents(f) == {NoContent, EmptyContent} \cup {Source(is, BodyOf(f)) : is \in ImportLists(f)}

ScoringIdle ==
  /\ impl \in {"calculator", "pattern"}
  /\ options = [maxDepth |-> 0]
  /\ sourceFile = <<>>
  /\ fileResult = NotScored(options)
  /\ prevFileScore = 0
  /\ context = createComplexityContext(options)
  /\ outcome = NoOutcome
  /\ hotspots = NoHotspots
  /\ summary = NoSummary

InitModules == ScoringIdle /\ ModulesIdle /\ CompareIdle /\ SideIdle

\* calculateModulesComplexity(filePaths, fileContents, options) is called.
CallModulesComplexity ==
  /\ pc = "idle"
  /\ filePaths' \in FileOrders
  /\ \E ca \in Contents(FileA), cb \in Contents(FileB), cc \in Contents(FileC) :
       fileContents' = [f \in Files |->
                          IF f = FileA THEN ca ELSE IF f = FileB THEN cb ELSE cc]
  /\ pc' = "create"
  /\ cursor' = 1
  /\ UNCHANGED <<scoreVars, compareVars, sideVars, modules, order, stack, calculatedModules,
                 processingModules, results, reached>>

\* One turn of the loop over filePaths (2597-2606).
CreateModule ==
  /\ pc = "create"
  /\ cursor <= Len(filePaths)
  /\ LET filePath == filePaths[cursor]
         content  == fileContents[filePath]
     IN modules' = IF content.text \in {"undefined", ""} THEN modules
                   ELSE Append(modules, createModuleDependency(filePath, content, options))
  /\ cursor' = cursor + 1
  /\ UNCHANGED <<scoreVars, compareVars, sideVars, filePaths, fileContents, pc, order, stack,
                 calculatedModules, processingModules, results, reached>>

\* resolveDependencies(modules, moduleMap) (2609).
ResolveDependencies ==
  /\ pc = "create"
  /\ cursor > Len(filePaths)
  /\ modules' = resolveDependencies(modules)
  /\ pc' = "sort"
  /\ UNCHANGED <<scoreVars, compareVars, sideVars, filePaths, fileContents, order, stack, cursor,
                 calculatedModules, processingModules, results, reached>>

\* topologicalSort up to its loop (2266-2267).
SortStart ==
  /\ pc = "sort"
  /\ modules' = initializeModuleMap(modules)
  /\ order' = <<>>
  /\ cursor' = 1
  /\ pc' = "visit"
  /\ UNCHANGED <<scoreVars, compareVars, sideVars, filePaths, fileContents, stack,
                 calculatedModules, processingModules, results, reached>>

\* One turn of topologicalSort's loop over modules (2270-2274).
VisitRoot ==
  /\ pc = "visit"
  /\ stack = <<>>
  /\ cursor <= Len(modules)
  /\ LET call == IF ~modules[cursor].visited THEN visitModule(modules, stack, cursor)
                 ELSE [modules |-> modules, stack |-> stack, threw |-> FALSE]
     IN /\ modules' = call.modules
        /\ stack' = call.stack
        /\ pc' = IF call.threw THEN "threw" ELSE pc
  /\ cursor' = cursor + 1
  /\ UNCHANGED <<scoreVars, compareVars, sideVars, filePaths, fileContents, order,
                 calculatedModules, processingModules, results, reached>>

\* One turn of visitModule's loop over the dependencies (2236-2248).
VisitDependency ==
  /\ pc = "visit"
  /\ stack # <<>>
  /\ LET frame   == stack[Len(stack)]
         m       == frame.module
         stepped == [stack EXCEPT ![Len(stack)].next = @ + 1]
     IN /\ frame.next <= Len(frame.deps)
        /\ LET depPath == frame.deps[frame.next]
               d == moduleMapGet(modules, depPath)
           IN IF d = 0
                THEN /\ stack' = stepped
                     /\ UNCHANGED <<modules, pc, reached>>
              ELSE LET cycle == handleCircularDependency(modules[m], depPath, modules[d])
                       call  == visitModule(modules, stepped, d)
                   IN /\ reached' = IF modules[d].temporaryMark
                                    THEN reached \cup {<<modules[m].path, depPath>>}
                                    ELSE reached
                      /\ IF cycle.found
                           THEN /\ modules' = [modules EXCEPT ![m].dependencies = cycle.dependencies]
                                /\ stack' = stepped
                                /\ pc' = pc
                         ELSE /\ modules' = call.modules
                              /\ stack' = call.stack
                              /\ pc' = IF call.threw THEN "threw" ELSE pc
  /\ UNCHANGED <<scoreVars, compareVars, sideVars, filePaths, fileContents, order, cursor,
                 calculatedModules, processingModules, results>>

\* The end of visitModule (2250-2255).
VisitExit ==
  /\ pc = "visit"
  /\ stack # <<>>
  /\ LET frame == stack[Len(stack)]
     IN /\ frame.next > Len(frame.deps)
        /\ modules' = [modules EXCEPT ![frame.module].visited = TRUE,
                                      ![frame.module].temporaryMark = FALSE]
        /\ order' = Append(order, frame.module)
        /\ stack' = SubSeq(stack, 1, Len(stack) - 1)
  /\ UNCHANGED <<scoreVars, compareVars, sideVars, filePaths, fileContents, pc, cursor,
                 calculatedModules, processingModules, results, reached>>

\* topologicalSort returns (2277); order holds indices into modules.
SortReturn ==
  /\ pc = "visit"
  /\ stack = <<>>
  /\ cursor > Len(modules)
  /\ order' = sortedModules(order)
  /\ pc' = "aggregate"
  /\ UNCHANGED <<scoreVars, compareVars, sideVars, filePaths, fileContents, modules, stack, cursor,
                 calculatedModules, processingModules, results, reached>>

\* calculateModuleComplexity up to its loop (2288-2302).
AggregateStart ==
  /\ pc = "aggregate"
  /\ modules' = [i \in 1..Len(modules) |->
                   [modules[i] EXCEPT !.moduleComplexity = modules[i].fileComplexity.score]]
  /\ calculatedModules' = {}
  /\ processingModules' = {}
  /\ cursor' = 1
  /\ pc' = "calculate"
  /\ UNCHANGED <<scoreVars, compareVars, sideVars, filePaths, fileContents, order, stack, results, reached>>

\* One turn of the loop over [...modules].reverse() (2420-2424).
AggregateModule ==
  /\ pc = "calculate"
  /\ cursor <= Len(order)
  /\ LET st == [modules |-> modules, calculated |-> calculatedModules,
                processing |-> processingModules]
         returns(after) ==
           /\ modules' = after.modules
           /\ calculatedModules' = after.calculated
           /\ processingModules' = after.processing
         turn(m) ==
           returns(IF modules[m].path \notin calculatedModules
                   THEN calculateDependencyComplexity(st, m, 0).st ELSE st)
     IN turn(Reverse(order)[cursor])
  /\ cursor' = cursor + 1
  /\ UNCHANGED <<scoreVars, compareVars, sideVars, filePaths, fileContents, pc, order, stack, results, reached>>

\* modulesWithComplexity.map(createModuleComplexityResult) (2618).
Format ==
  /\ pc = "calculate"
  /\ cursor > Len(order)
  /\ results' = [k \in 1..Len(order) |-> createModuleComplexityResult(modules[order[k]])]
  /\ pc' = "done"
  /\ UNCHANGED <<scoreVars, compareVars, sideVars, filePaths, fileContents, modules, order, stack, cursor,
                 calculatedModules, processingModules, reached>>

NextModules ==
  \/ CallModulesComplexity
  \/ CreateModule
  \/ ResolveDependencies
  \/ SortStart
  \/ VisitRoot
  \/ VisitDependency
  \/ VisitExit
  \/ SortReturn
  \/ AggregateStart
  \/ AggregateModule
  \/ Format

SpecModules == InitModules /\ [][NextModules]_vars

-----------------------------------------------------------------------------
(* calculateModuleComplexity(modules) called on its own, as the exported   *)
(* function it is: the caller hands it any list of modules, sorted or not, *)
(* with or without import cycles.                                          *)

ModulePath(k) == <<"m", k, ".ts">>

\* A list of n modules: the k-th has a file result of its own and imports
\* the next one; extra = <<from, to>> adds one import, <<>> adds none.
ModuleChain(n, extra) ==
  [k \in 1..n |->
     [path |-> ModulePath(k),
      dependencies |-> (IF k < n THEN <<ModulePath(k + 1)>> ELSE <<>>)
                       \o (IF extra # <<>> /\ extra[1] = k THEN <<ModulePath(extra[2])>>
                           ELSE <<>>),
      fileComplexity |-> [score |-> 1000 * k, children |-> IF k % 2 = 0 THEN <<500>> ELSE <<>>],
      moduleComplexity |-> 0,
      visited |-> FALSE,
      temporaryMark |-> FALSE]]

ExtraImports(n) ==
  {<<>>} \cup {<<from, to>> : from \in 1..n, to \in 1..n}

\* the lists handed to calculateModuleComplexity: a chain, as it is or
\* reversed
ModuleLists ==
  UNION {{ModuleChain(n, extra), Reverse(ModuleChain(n, extra))} :
           n \in 1..MaxModules, extra \in ExtraImports(MaxCycle)}

InitAggregate == ScoringIdle /\ ModulesIdle /\ CompareIdle /\ SideIdle

\* calculateModuleComplexity(mods) up to its loop (2288-2302)
CallModuleComplexity(mods) ==
  /\ aggregation.pc = "idle"
  /\ aggregation' = [NoAggregation EXCEPT !.pc = "loop",
                                          !.input = mods,
                                          !.modules = initialModuleComplexity(mods),
                                          !.cursor = 1]
  /\ UNCHANGED <<scoreVars, moduleVars, compareVars, resolution, lint>>

\* One entry of the record of the run: module m was met at a recursion
\* depth, and the statement named in line took the value for it while its
\* moduleComplexity was current.
Met(ag, m, depth, line, value) ==
  [ag EXCEPT !.log = Append(@, [module |-> m, depth |-> depth, line |-> line, value |-> value,
                                current |-> ag.modules[m].moduleComplexity])]

\* the value a returning call hands to the loop of its caller (2366-2372)
Returned(ag, value) ==
  IF ag.frames = <<>> THEN ag
  ELSE [ag EXCEPT !.frames[Len(ag.frames)].dependencyComplexity = Plus(@, value)]

\* calculateDependencyComplexity(modules[m], depth) up to the loop over the
\* dependencies (2383-2393): the early return, or a frame
\* [module, depth, next, dependencyComplexity] for the call.
callDependencyComplexity(ag, m, depth) ==
  LET body(earlyReturnValue) ==
        IF earlyReturnValue.early
          THEN Returned(Met(ag, m, depth, earlyReturnValue.line, earlyReturnValue.value),
                        earlyReturnValue.value)
        ELSE [ag EXCEPT !.processing = @ \cup {ag.modules[m].path},
                        !.frames = Append(@, [module |-> m, depth |-> depth, next |-> 1,
                                              dependencyComplexity |-> 0])]
  IN body(shouldReturnEarly(ag, m, depth))

\* complexity/statement.ts 2401-2409
aggregateOf(module, dependencyComplexity) ==
  IF Len(module.dependencies) > 0
    THEN Plus(calculateFileNodeComplexity(module),
              Divide(dependencyComplexity * 50, sqrt(Len(module.dependencies))))
  ELSE calculateFileNodeComplexity(module)

\* One turn of the loop over [...modules].reverse() (2420-2424).
AggregateNext ==
  /\ aggregation.pc = "loop"
  /\ aggregation.frames = <<>>
  /\ aggregation.cursor <= Len(aggregation.modules)
  /\ LET m == Len(aggregation.modules) + 1 - aggregation.cursor
         stepped == [aggregation EXCEPT !.cursor = @ + 1]
     IN aggregation' = IF aggregation.modules[m].path \notin aggregation.calculated
                         THEN callDependencyComplexity(stepped, m, 0)
                       ELSE stepped
  /\ UNCHANGED <<scoreVars, moduleVars, compareVars, resolution, lint>>

\* One turn of the loop of calculateDependenciesComplexity (2360-2373).
AggregateDependency ==
  /\ aggregation.frames # <<>>
  /\ LET frame == aggregation.frames[Len(aggregation.frames)]
         deps == aggregation.modules[frame.module].dependencies
         stepped == [aggregation EXCEPT !.frames[Len(aggregation.frames)].next = @ + 1]
         turn(depPath, d) ==
           IF d = 0 THEN stepped
           ELSE IF depPath \in aggregation.processing
             THEN Met(stepped, d, frame.depth + 1, "continue", 0)
           ELSE callDependencyComplexity(stepped, d, frame.depth + 1)
     IN /\ frame.next <= Len(deps)
        /\ aggregation' = turn(deps[frame.next], moduleMapGet(aggregation.modules, deps[frame.next]))
  /\ UNCHANGED <<scoreVars, moduleVars, compareVars, resolution, lint>>

\* The end of calculateDependencyComplexity (2395-2415).
AggregateReturn ==
  /\ aggregation.frames # <<>>
  /\ LET frame == aggregation.frames[Len(aggregation.frames)]
         m == frame.module
         module == aggregation.modules[m]
         finalComplexity == aggregateOf(module, frame.dependencyComplexity)
         popped == [Met(aggregation, m, frame.depth, "computed", finalComplexity)
                      EXCEPT !.processing = @ \ {module.path},
                             !.modules[m].moduleComplexity = finalComplexity,
                             !.calculated = @ \cup {module.path},
                             !.frames = SubSeq(@, 1, Len(@) - 1)]
     IN /\ frame.next > Len(module.dependencies)
        /\ aggregation' = Returned(popped, finalComplexity)
  /\ UNCHANGED <<scoreVars, moduleVars, compareVars, resolution, lint>>

\* calculateModuleComplexity returns (2426).
AggregateDone ==
  /\ aggregation.pc = "loop"
  /\ aggregation.frames = <<>>
  /\ aggregation.cursor > Len(aggregation.modules)
  /\ aggregation' = [aggregation EXCEPT !.pc = "done"]
  /\ UNCHANGED <<scoreVars, moduleVars, compareVars, resolution, lint>>

NextAggregate ==
  \/ \E mods \in ModuleLists : CallModuleComplexity(mods)
  \/ AggregateNext
  \/ AggregateDependency
  \/ AggregateReturn
  \/ AggregateDone

SpecAggregate == InitAggregate /\ [][NextAggregate]_vars

-----------------------------------------------------------------------------
(* Import resolution on its own: extractDependencyFromImport(statement,    *)
(* filePath) for the import declarations a file can be written with.       *)

\* files that hold the import declaration
BasePaths ==
  {<<"a", ".ts">>, <<"lib", "/", "c", ".ts">>,
   <<"src", "/", "lib", "/", "d", ".ts">>, <<"lib", "/", "sub", "/", "e", ".ts">>,
   <<".", "/", "a", ".ts">>, <<".", "/", "lib", "/", "c", ".ts">>,
   <<"/", "a", ".ts">>, <<"/", "src", "/", "lib", "/", "d", ".ts">>}

\* module specifiers: ./x ../x ./sub/x, bare or ending in "/", ".ts", ".js",
\* and one that is not relative
SpecifierChoices ==
  {prefix \o <<name>> \o suffix :
     prefix \in {<<".", "/">>, <<".", ".", "/">>, <<".", "/", "sub", "/">>},
     name \in {"lib", "c", "mod"},
     suffix \in {<<>>, <<"/">>, <<".ts">>, <<".js">>}}
  \cup {<<"npm:typescript">>}

InitResolve == ScoringIdle /\ ModulesIdle /\ CompareIdle /\ SideIdle

\* extractDependencyFromImport(statement, filePath)
Resolve(filePath, specifier) ==
  /\ resolution' = [basePath |-> filePath, importPath |-> specifier,
                    resolved |-> extractDependencyFromImport(Import(specifier, 1), filePath),
                    called |-> TRUE]
  /\ UNCHANGED <<scoreVars, moduleVars, compareVars, lint, aggregation>>

NextResolve ==
  \E filePath \in BasePaths : \E specifier \in SpecifierChoices : Resolve(filePath, specifier)

SpecResolve == InitResolve /\ [][NextResolve]_vars

-----------------------------------------------------------------------------
(* Metrics engine and score comparator (metrics.ts: reporter.ts 149-334,   *)
(* parser.ts, comparator.ts).  A parsed snippet is a tree of               *)
(*   [kind, kids, op, name, lines]                                         *)
(* kids: the children in ts.forEachChild order, op: the operator token or  *)
(* the let/const flag, name: an identifier's text, lines: the lines a      *)
(* block spans.  Metric values are thousandths, weights are tenths, so a   *)
(* weighted score is in ten-thousandths.                                   *)

Ast(kind, kids, op, name, lines) ==
  [kind |-> kind, kids |-> kids, op |-> op, name |-> name, lines |-> lines]

Id(name) == Ast("Identifier", <<>>, "", name, 0)
Num(text) == Ast("NumericLiteral", <<>>, "", text, 0)
Str(text) == Ast("StringLiteral", <<>>, "", text, 0)
Bin(op, left, right) == Ast("BinaryExpression", <<left, right>>, op, "", 0)
Not(operand) == Ast("PrefixUnaryExpression", <<operand>>, "!", "", 0)
Incr(operand) == Ast("PostfixUnaryExpression", <<operand>>, "++", "", 0)
CallOf(callee, args) == Ast("CallExpression", <<callee>> \o args, "", "", 0)
Prop(object, name) == Ast("PropertyAccessExpression", <<object, Id(name)>>, "", "", 0)
ExprStmt(e) == Ast("ExpressionStatement", <<e>>, "", "", 0)
Ret(e) == Ast("ReturnStatement", <<e>>, "", "", 0)
Throw(e) == Ast("ThrowStatement", <<e>>, "", "", 0)
BlockOf(stmts, lines) == Ast("Block", stmts, "", "", lines)
\* let x = init; / const x = init;
Var(flag, name, init) ==
  Ast("VariableStatement",
      <<Ast("VariableDeclarationList",
            <<Ast("VariableDeclaration", <<Id(name), init>>, flag, "", 0)>>,
            flag, "", 0)>>, "", "", 0)
IfThen(cond, then) == Ast("IfStatement", <<cond, then>>, "", "", 0)
IfElse(cond, then, else) == Ast("IfStatement", <<cond, then, else>>, "", "", 0)
CaseOf(e, stmts) == Ast("CaseClause", <<e>> \o stmts, "", "", 0)
DefaultOf(stmts) == Ast("DefaultClause", stmts, "", "", 0)
SwitchOf(e, clauses) ==
  Ast("SwitchStatement", <<e, Ast("CaseBlock", clauses, "", "", 0)>>, "", "", 0)
Param(name) == Ast("Parameter", <<Id(name)>>, "", "", 0)
Func(name, params, body) ==
  Ast("FunctionDeclaration", <<Id(name)>> \o params \o <<body>>, "", "", 0)
Catch(binding, block) ==
  Ast("CatchClause",
      (IF binding = "" THEN <<>>
       ELSE <<Ast("VariableDeclaration", <<Id(binding)>>, "", "", 0)>>) \o <<block>>,
      "", "", 0)
Try(tryBlock, rest) == Ast("TryStatement", <<tryBlock>> \o rest, "", "", 0)
\* createSourceFile(code)
createSourceFile(stmts) == Ast("SourceFile", stmts, "", "", 0)

\* reporter.ts 171-182
initializeMetrics ==
  [totalScore |-> 1000, variableMutabilityScore |-> 0, scopeComplexityScore |-> 0,
   assignmentScore |-> 0, functionComplexityScore |-> 0,
   conditionalComplexityScore |-> 0, exceptionHandlingScore |-> 0,
   hotspots |-> <<>>]

\* reporter.ts 185-203: recorded only when score >= 3
addHotspot(metrics, node, score) ==
  IF score >= 3000
  THEN [metrics EXCEPT !.hotspots = Append(@, [nodeType |-> node.kind, score |-> score])]
  ELSE metrics

ComparisonOperators == {"==", "===", "!=", "!==", "<", "<=", ">", ">="}

RECURSIVE metricsExpressionComplexity(_)
RECURSIVE SumExpressionComplexity(_)
SumExpressionComplexity(es) ==
  IF es = <<>> THEN 0
  ELSE metricsExpressionComplexity(Head(es)) + SumExpressionComplexity(Tail(es))

\* calculateExpressionComplexity of metrics.ts (reporter.ts 206-275)
metricsExpressionComplexity(e) ==
  1000 +
  CASE e.kind = "BinaryExpression" ->
         SumExpressionComplexity(e.kids)
         + (IF e.op \in {"&&", "||"} THEN 500
            ELSE IF e.op \in ComparisonOperators THEN 300 ELSE 0)
    [] e.kind = "PrefixUnaryExpression" ->
         SumExpressionComplexity(e.kids) + (IF e.op = "!" THEN 300 ELSE 0)
    [] e.kind = "PostfixUnaryExpression" -> SumExpressionComplexity(e.kids)
    [] e.kind = "ConditionalExpression" -> SumExpressionComplexity(e.kids) + 1000
    [] e.kind = "CallExpression" -> SumExpressionComplexity(e.kids)
    [] e.kind = "PropertyAccessExpression" -> SumExpressionComplexity(<<e.kids[1]>>)
    [] e.kind = "ElementAccessExpression" -> SumExpressionComplexity(e.kids)
    [] OTHER -> 0

RECURSIVE countScopeSymbols(_)
RECURSIVE CountSymbolsIn(_)
CountSymbolsIn(nodes) ==
  IF nodes = <<>> THEN 0
  ELSE countScopeSymbols(Head(nodes)) + CountSymbolsIn(Tail(nodes))

\* parser.ts 30-51
countScopeSymbols(node) ==
  (IF node.kind \in {"VariableDeclaration", "Parameter", "FunctionDeclaration",
                     "ClassDeclaration", "InterfaceDeclaration",
                     "TypeAliasDeclaration"} THEN 1 ELSE 0)
  + CountSymbolsIn(node.kids)

\* mutationMap.get(varName) || 0
mutationsOf(mutationMap, varName) ==
  IF varName \in DOMAIN mutationMap THEN mutationMap[varName] ELSE 0

\* mutationMap.set(varName, (mutationMap.get(varName) || 0) + 1)
bumpMutation(mutationMap, varName) ==
  [k \in DOMAIN mutationMap \cup {varName} |-> mutationsOf(mutationMap, k) + (IF k = varName THEN 1 ELSE 0)]

RECURSIVE trackVariableMutations(_, _)
RECURSIVE TrackEach(_, _)
TrackEach(nodes, mutationMap) ==
  IF nodes = <<>> THEN mutationMap
  ELSE TrackEach(Tail(nodes), trackVariableMutations(Head(nodes), mutationMap))

\* parser.ts 58-128.  A key is <<name>> for a variable and <<object, property>>
\* for a property.
trackVariableMutations(node, mutationMap) ==
  LET left == node.kids[1]
      assigned ==
        IF node.kind = "BinaryExpression" /\ node.op = "="
        THEN IF left.kind = "Identifier" THEN bumpMutation(mutationMap, <<left.name>>)
             ELSE IF left.kind = "PropertyAccessExpression"
                     /\ left.kids[1].kind = "Identifier"
                  THEN bumpMutation(mutationMap, <<left.kids[1].name, left.kids[2].name>>)
                  ELSE mutationMap
        ELSE IF /\ node.kind = "BinaryExpression"
                /\ node.op \in {"+=", "-=", "*=", "/=", "%="}
                /\ left.kind = "Identifier"
             THEN bumpMutation(mutationMap, <<left.name>>)
        ELSE IF /\ node.kind \in {"PrefixUnaryExpression", "PostfixUnaryExpression"}
                /\ node.op \in {"++", "--"}
                /\ left.kind = "Identifier"
             THEN bumpMutation(mutationMap, <<left.name>>)
        ELSE mutationMap
  IN TrackEach(node.kids, assigned)

\* metrics[category] += score; metrics.totalScore += score
addScore(metrics, category, score) ==
  [metrics EXCEPT ![category] = @ + score, !.totalScore = @ + score]

\* parser.ts 152-179
visitVariableDeclaration(node, metrics, mutationMap) ==
  IF /\ node.kind = "VariableDeclaration"
     /\ node.op = "let"
     /\ node.kids[1].kind = "Identifier"
     /\ mutationsOf(mutationMap, <<node.kids[1].name>>) > 0
  THEN LET score == 1000 * mutationsOf(mutationMap, <<node.kids[1].name>>)
       IN addHotspot(addScore(metrics, "variableMutabilityScore", score), node, score)
  ELSE metrics

\* parser.ts 182-198
visitScope(node, metrics) ==
  IF node.kind \in {"Block", "SourceFile"}
  THEN LET symbolCount == countScopeSymbols(node)
           scored == addScore(metrics, "scopeComplexityScore", symbolCount * 500)
       IN IF symbolCount > 5 THEN addHotspot(scored, node, symbolCount * 500) ELSE scored
  ELSE metrics

\* parser.ts 201-207
visitAssignment(node, metrics) ==
  IF node.kind = "BinaryExpression" /\ node.op = "="
  THEN addScore(metrics, "assignmentScore", 1000)
  ELSE metrics

RECURSIVE bodyStatementsComplexity(_)
\* parser.ts 222-228: expression statements and returns with an expression
bodyStatementsComplexity(stmts) ==
  IF stmts = <<>> THEN 0
  ELSE (IF Head(stmts).kind \in {"ExpressionStatement", "ReturnStatement"}
           /\ Head(stmts).kids # <<>>
        THEN metricsExpressionComplexity(Head(stmts).kids[1]) ELSE 0)
       + bodyStatementsComplexity(Tail(stmts))

\* Math.ceil(x) of a value in thousandths
ceil(x) == (x + 999) \div 1000

\* parser.ts 210-257
visitFunction(node, metrics) ==
  IF node.kind \in {"FunctionDeclaration", "MethodDeclaration",
                    "FunctionExpression", "ArrowFunction"}
  THEN LET body == node.kids[Len(node.kids)]
           bodyComplexity ==
             1000 + (IF body.kind = "Block" THEN bodyStatementsComplexity(body.kids)
                     ELSE IF body.kind \in {"Identifier", "Parameter"} THEN 0
                     ELSE metricsExpressionComplexity(body))
           paramCount == Len(SelectSeq(node.kids, LAMBDA k : k.kind = "Parameter"))
           estimatedCallCount == Max(1, ceil(bodyComplexity \div 2))
           score == estimatedCallCount * (bodyComplexity + 1000 * paramCount)
           scored == addScore(metrics, "functionComplexityScore", score)
       IN IF score > 5000 THEN addHotspot(scored, node, score) ELSE scored
  ELSE metrics

\* parser.ts 260-276
visitIf(node, metrics) ==
  IF node.kind = "IfStatement"
  THEN LET complexity == metricsExpressionComplexity(node.kids[1])
           scored == addScore(metrics, "conditionalComplexityScore", complexity)
       IN IF complexity > 2000 THEN addHotspot(scored, node, complexity) ELSE scored
  ELSE metrics

\* parser.ts 279-295
visitSwitch(node, metrics) ==
  IF node.kind = "SwitchStatement"
  THEN LET caseCount == Len(node.kids[2].kids)
           scored == addScore(metrics, "conditionalComplexityScore", caseCount * 500)
       IN IF caseCount > 5 THEN addHotspot(scored, node, caseCount * 500) ELSE scored
  ELSE metrics

\* parser.ts 298-309
visitThrow(node, metrics) ==
  IF node.kind = "ThrowStatement"
  THEN addScore(metrics, "exceptionHandlingScore",
                1000 + (IF node.kids # <<>> THEN metricsExpressionComplexity(node.kids[1])
                        ELSE 0))
  ELSE metrics

\* parser.ts 311-354
visitTry(node, metrics) ==
  IF node.kind = "TryStatement"
  THEN LET clauses == SelectSeq(node.kids, LAMBDA k : k.kind = "CatchClause")
           hasCatch == clauses # <<>>
           binds == hasCatch /\ Head(clauses).kids[1].kind = "VariableDeclaration"
           hasFinally == node.kids[Len(node.kids)].kind = "Block" /\ Len(node.kids) > 1
           score == 1000 + node.kids[1].lines * 500
                    + (IF hasCatch THEN 2000 ELSE 0)
                    + (IF binds THEN 500 ELSE 0)
                    + (IF hasFinally THEN 1500 ELSE 0)
           scored == addScore(metrics, "exceptionHandlingScore", score)
       IN IF score > 5000 THEN addHotspot(scored, node, score) ELSE scored
  ELSE metrics

\* what one call adds to the metrics record it is handed
NoMetrics == [initializeMetrics EXCEPT !.totalScore = 0]

\* the additions of two calls in the order they were made
mergeMetrics(first, second) ==
  [k \in DOMAIN first |->
     IF k = "hotspots" THEN first[k] \o second[k] ELSE first[k] + second[k]]

RECURSIVE visitNode(_, _)
RECURSIVE VisitEach(_, _)
\* ts.forEachChild(node, (child) => visitNode(child, ...))
VisitEach(nodes, mutationMap) ==
  IF nodes = <<>> THEN NoMetrics
  ELSE mergeMetrics(visitNode(Head(nodes), mutationMap),
                    VisitEach(Tail(nodes), mutationMap))

\* parser.ts 137-369: the additions visitNode(node, metrics, ...) makes to
\* metrics, the node's own first and then its children's
visitNode(node, mutationMap) ==
  mergeMetrics(
    visitTry(node,
      visitThrow(node,
        visitSwitch(node,
          visitIf(node,
            visitFunction(node,
              visitAssignment(node,
                visitScope(node,
                  visitVariableDeclaration(node, NoMetrics, mutationMap)))))))),
    VisitEach(node.kids, mutationMap))

RECURSIVE InsertHotspot(_, _)
\* metrics.hotspots.sort((a, b) => b.score - a.score), a stable sort
InsertHotspot(sorted, h) ==
  IF sorted = <<>> THEN <<h>>
  ELSE IF Head(sorted).score >= h.score THEN <<Head(sorted)>> \o InsertHotspot(Tail(sorted), h)
  ELSE <<h>> \o sorted

RECURSIVE SortHotspots(_, _)
SortHotspots(list, acc) ==
  IF list = <<>> THEN acc ELSE SortHotspots(Tail(list), InsertHotspot(acc, Head(list)))

\* reporter.ts 282-304: code is the statement list the parser produces
analyzeCodeComplexity(code) ==
  LET sorted(metrics) == [metrics EXCEPT !.hotspots = SortHotspots(@, <<>>)]
  IN sorted(mergeMetrics(initializeMetrics,
                         visitNode(createSourceFile(code),
                                   trackVariableMutations(createSourceFile(code), <<>>))))

\* reporter.ts 312-324
calculateComplexityScore(metrics, weights) ==
  metrics.variableMutabilityScore * weights.variableMutabilityWeight
  + metrics.scopeComplexityScore * weights.scopeComplexityWeight
  + metrics.assignmentScore * weights.assignmentWeight
  + metrics.functionComplexityScore * weights.functionComplexityWeight
  + metrics.conditionalComplexityScore * weights.conditionalComplexityWeight
  + metrics.exceptionHandlingScore * weights.exceptionHandlingWeight

\* Faulty variant: an equal score counts as better.
betterCode_LessOrEqual(scoreA, scoreB) ==
  IF scoreA <= scoreB THEN "A" ELSE IF scoreB < scoreA THEN "B" ELSE "NEITHER"

\* comparator.ts 66-74
betterCode(scoreA, scoreB) ==
  IF scoreA < scoreB THEN "A" ELSE IF scoreB < scoreA THEN "B" ELSE "NEITHER"

\* Faulty variant: codeB is scored with the default weights.
compareCodeComplexity_DefaultWeightsForB(codeA, codeB, weights) ==
  LET result(metricsA, metricsB) ==
        LET scored(scoreA, scoreB) ==
              [metricsA |-> metricsA, metricsB |-> metricsB,
               scoreA |-> scoreA, scoreB |-> scoreB,
               betterCode |-> betterCode(scoreA, scoreB)]
        IN scored(calculateComplexityScore(metricsA, weights),
                  calculateComplexityScore(metricsB, DEFAULT_COMPLEXITY_WEIGHTS))
  IN result(analyzeCodeComplexity(codeA), analyzeCodeComplexity(codeB))

\* comparator.ts 55-83
compareCodeComplexity(codeA, codeB, weights) ==
  LET result(metricsA, metricsB) ==
        LET scored(scoreA, scoreB) ==
              [metricsA |-> metricsA, metricsB |-> metricsB,
               scoreA |-> scoreA, scoreB |-> scoreB,
               betterCode |-> betterCode(scoreA, scoreB)]
        IN scored(calculateComplexityScore(metricsA, weights),
                  calculateComplexityScore(metricsB, weights))
  IN result(analyzeCodeComplexity(codeA), analyzeCodeComplexity(codeB))

-----------------------------------------------------------------------------
(* Comparisons: compareCodeComplexity(codeA, codeB, weights) over a        *)
(* library of snippets, followed by the call with the arguments swapped.   *)

Kw(word) == Ast(word, <<>>, "", "", 0)

\* if (a <op> <value>) { return true; }
IfReturn(op, value) ==
  IfThen(Bin(op, Id("a"), Num(value)), BlockOf(<<Ret(Kw("TrueKeyword"))>>, 3))

\* function test(a) { <stmts> return false; }
TestFunction(params, stmts) ==
  <<Func("test", params, BlockOf(stmts \o <<Ret(Kw("FalseKeyword"))>>, Len(stmts) + 3))>>

RECURSIVE Times(_, _)
\* the statement repeated k times in sequence
Times(k, stmt) == IF k = 0 THEN <<>> ELSE <<stmt>> \o Times(k - 1, stmt)

\* function test(a) { if (a > 0) { return true; } ... (k times) return false; }
FunctionWithIfs(k) == TestFunction(<<Param("a")>>, Times(k, IfReturn(">", "0")))

RECURSIVE CaseClauses(_, _)
\* case i: return "i"; ... case n: return "n";
CaseClauses(i, n) ==
  IF i > n THEN <<>>
  ELSE <<CaseOf(Num(ToString(i)), <<Ret(Str(ToString(i)))>>)>> \o CaseClauses(i + 1, n)

\* switch (a) { case 1: ... case n: ... [default: return "other";] }
SwitchStatement(n, withDefault) ==
  SwitchOf(Id("a"), CaseClauses(1, n)
                    \o (IF withDefault THEN <<DefaultOf(<<Ret(Str("other"))>>)>> ELSE <<>>))

RECURSIVE IfChain(_, _, _)
\* if (a === i) {...} else if (a === i+1) {...} ... [else { return "other"; }]
IfChain(i, n, withElse) ==
  LET test == Bin("===", Id("a"), Num(ToString(i)))
      then == BlockOf(<<Ret(Str(ToString(i)))>>, 3)
  IN IF i < n THEN IfElse(test, then, IfChain(i + 1, n, withElse))
     ELSE IF withElse THEN IfElse(test, then, BlockOf(<<Ret(Str("other"))>>, 3))
     ELSE IfThen(test, then)

\* function test(a) { <stmt> }
FunctionOf(stmt) == <<Func("test", <<Param("a")>>, BlockOf(<<stmt>>, 5))>>

\* let x = 0; x = a; x++; o.p = x;
Mutations ==
  <<Var("let", "x", Num("0")),
    ExprStmt(Bin("=", Id("x"), Id("a"))),
    ExprStmt(Incr(Id("x"))),
    ExprStmt(Bin("=", Prop(Id("o"), "p"), Id("x")))>>

\* try { doIt(); } catch (e) { throw e; } finally { done(); }
TryCatchFinally ==
  <<Try(BlockOf(<<ExprStmt(CallOf(Id("doIt"), <<>>))>>, 3),
        <<Catch("e", BlockOf(<<Throw(Id("e"))>>, 3)),
          BlockOf(<<ExprStmt(CallOf(Id("done"), <<>>))>>, 3)>>)>>

Snippets ==
  <<(* 1 *) <<>>,
    (* 2 *) FunctionWithIfs(1),
    (* 3 *) FunctionWithIfs(3),
    (* 4 *) TestFunction(<<Param("a")>>,
              <<IfReturn(">", "0"), IfReturn("===", "0"), IfReturn("<", "0")>>),
    (* 5 *) TestFunction(<<Param("a"), Param("b"), Param("c"), Param("d")>>,
              <<IfThen(Bin("&&", Bin("&&", Bin("&&", Bin(">", Id("a"), Num("0")),
                                                     Bin(">", Id("b"), Num("0"))),
                                         Bin(">", Id("c"), Num("0"))),
                             Bin(">", Id("d"), Num("0"))),
                       BlockOf(<<Ret(Kw("TrueKeyword"))>>, 3))>>),
    (* 6 *) Mutations,
    (* 7 *) TryCatchFinally>>
  \o [i \in 1..(MaxCases - 1) |-> FunctionOf(SwitchStatement(i + 1, FALSE))]
  \o [i \in 1..(MaxCases - 1) |-> FunctionOf(IfChain(1, i + 1, FALSE))]
  \o [i \in 1..(MaxCases - 1) |-> FunctionOf(SwitchStatement(i + 1, TRUE))]
  \o [i \in 1..(MaxCases - 1) |-> FunctionOf(IfChain(1, i + 1, TRUE))]

SnippetIds == 1..Len(Snippets)
\* the snippets of a switch with n cases and of a chain of n branches
SwitchSnippet(n, withDefault) == 7 + (IF withDefault THEN 2 * (MaxCases - 1) ELSE 0) + n - 1
ChainSnippet(n, withElse) == SwitchSnippet(n, withElse) + MaxCases - 1

\* weights a caller passes: the default, all zero, conditions only
WeightChoices ==
  {DEFAULT_COMPLEXITY_WEIGHTS,
   [k \in DOMAIN DEFAULT_COMPLEXITY_WEIGHTS |-> 0],
   [k \in DOMAIN DEFAULT_COMPLEXITY_WEIGHTS |->
      IF k = "conditionalComplexityWeight" THEN 10 ELSE 0]}

\* the answer of compareCodeComplexity as the caller records it
Compared(a, b, weights) ==
  LET record(result) ==
        [codeA |-> a, codeB |-> b, weights |-> weights,
         scoreA |-> result.scoreA, scoreB |-> result.scoreB,
         betterCode |-> result.betterCode, called |-> TRUE]
  IN record(compareCodeComplexity(Snippets[a], Snippets[b], weights))

InitCompare == ScoringIdle /\ ModulesIdle /\ CompareIdle /\ SideIdle

\* compareCodeComplexity(codeA, codeB, weights)
Compare(a, b, weights) ==
  /\ ~comparison.called
  /\ comparison' = Compared(a, b, weights)
  /\ previous' = comparison
  /\ UNCHANGED <<scoreVars, moduleVars, sideVars>>

\* compareCodeComplexity(codeB, codeA, weights): the same call, arguments swapped
CompareSwapped ==
  /\ comparison.called
  /\ ~previous.called
  /\ comparison' = Compared(comparison.codeB, comparison.codeA, comparison.weights)
  /\ previous' = comparison
  /\ UNCHANGED <<scoreVars, moduleVars, sideVars>>

NextCompare ==
  \/ \E a, b \in SnippetIds : \E weights \in WeightChoices : Compare(a, b, weights)
  \/ CompareSwapped

SpecCompare == InitCompare /\ [][NextCompare]_vars

-----------------------------------------------------------------------------
(* The lint rule do-try/require-try-catch-for-do-functions                  *)
(* (rules/do_with_try_rule.ts, utils/impl.ts).  A linted program is the     *)
(* list of its nodes in the order the linter visits them; a node is         *)
(*   [type, parent, role, name, target]                                     *)
(* parent: 0 for the Program node, which has no parent property; role: the  *)
(* property of the parent that holds the node; target: the callee of a      *)
(* call, the argument of an await, the property of a member expression.     *)

LintNode(type, parent, role, name, target) ==
  [type |-> type, parent |-> parent, role |-> role, name |-> name, target |-> target]

\* utils/impl.ts 1-5
hasNodeParent(node) == node.parent # 0

FunctionTypes == {"FunctionExpression", "ArrowFunctionExpression", "FunctionDeclaration"}

RECURSIVE isInsideTryCatch(_, _)
\* utils/impl.ts 8-28: the loop over current = current.parent
isInsideTryCatch(program, current) ==
  IF current = 0 THEN FALSE
  ELSE IF ~hasNodeParent(program[current]) THEN FALSE
  ELSE IF program[current].type = "TryStatement" THEN TRUE
  ELSE IF program[current].type \in FunctionTypes THEN FALSE
  ELSE isInsideTryCatch(program, program[current].parent)

\* utils/impl.ts 31-43; a name is the list of its pieces, "" is <<>>
getFunctionName(program, callee) ==
  IF program[callee].type = "Identifier" THEN program[callee].name
  ELSE IF /\ program[callee].type = "MemberExpression"
          /\ program[program[callee].target].type = "Identifier"
       THEN program[program[callee].target].name
  ELSE <<>>

\* rules/do_with_try_rule.ts 5-23: context.report appends a diagnostic
checkAndReportDoFunction(program, diagnostics, node, funcName) ==
  IF startsWith(funcName, "do") /\ ~isInsideTryCatch(program, node)
  THEN Append(diagnostics, [node |-> node, funcName |-> funcName])
  ELSE diagnostics

\* The programs linted: a call of one form and one name at one place.
\* doSomething(), obj.doMethod(), obj["doMethod"](), await ...(), await p
CallForms == {"plain", "method", "computed", "awaitPlain", "awaitMethod", "awaitValue"}
FunctionNames == {<<"do", "Something">>, <<"normal", "Function">>, <<"re", "do">>}

\* the nodes of the call, the first at b, under parent p
CallNodes(form, b, p, name) ==
  CASE form = "plain" ->
         <<LintNode("CallExpression", p, "expression", <<>>, b + 1),
           LintNode("Identifier", b, "callee", name, 0)>>
    [] form \in {"method", "computed"} ->
         <<LintNode("CallExpression", p, "expression", <<>>, b + 1),
           LintNode("MemberExpression", b, "callee", <<>>, b + 3),
           LintNode("Identifier", b + 1, "object", <<"obj">>, 0),
           LintNode(IF form = "method" THEN "Identifier" ELSE "Literal",
                    b + 1, "property", name, 0)>>
    [] form = "awaitValue" ->
         <<LintNode("AwaitExpression", p, "expression", <<>>, b + 1),
           LintNode("Identifier", b, "argument", <<"promise">>, 0)>>

AwaitedNodes(form, b, p, name) ==
  IF form \in {"awaitPlain", "awaitMethod"}
  THEN <<LintNode("AwaitExpression", p, "expression", <<>>, b + 1)>>
       \o CallNodes(IF form = "awaitPlain" THEN "plain" ELSE "method", b + 1, b, name)
  ELSE CallNodes(form, b, p, name)

\* a node of the path from the program to the call: its parent is `up`
\* places before it, its target `off` places after it (0: none)
Step(type, role, up, off) == [type |-> type, role |-> role, up |-> up, off |-> off]
InFunction == <<Step("FunctionDeclaration", "body", 1, 0), Step("BlockStatement", "body", 1, 0)>>
Statement == <<Step("ExpressionStatement", "body", 1, 0)>>
TryBlock == <<Step("TryStatement", "body", 1, 0), Step("BlockStatement", "block", 1, 0)>>
CatchBlock ==
  <<Step("TryStatement", "body", 1, 0), Step("BlockStatement", "block", 1, 0),
    Step("CatchClause", "handler", 2, 0), Step("BlockStatement", "body", 1, 0)>>
FinallyBlock ==
  <<Step("TryStatement", "body", 1, 0), Step("BlockStatement", "block", 1, 0),
    Step("BlockStatement", "finalizer", 2, 0)>>
\* run(() => <call>)
ArrowArgument ==
  <<Step("CallExpression", "expression", 1, 1), Step("Identifier", "callee", 1, 0),
    Step("ArrowFunctionExpression", "arguments", 2, 0)>>

Placements ==
  {"body", "try", "catch", "finally", "top", "topTry", "arrowInTry",
   "functionInTry", "catchInTry"}
PathTo(placement) ==
  CASE placement = "body" -> InFunction \o Statement
    [] placement = "try" -> InFunction \o TryBlock \o Statement
    [] placement = "catch" -> InFunction \o CatchBlock \o Statement
    [] placement = "finally" -> InFunction \o FinallyBlock \o Statement
    [] placement = "top" -> Statement
    [] placement = "topTry" -> TryBlock \o Statement
    [] placement = "arrowInTry" -> InFunction \o TryBlock \o Statement \o ArrowArgument
    [] placement = "functionInTry" -> InFunction \o TryBlock \o InFunction \o Statement
    [] placement = "catchInTry" -> InFunction \o TryBlock \o CatchBlock \o Statement

\* Program is node 1; step i of the path is node i + 1
PathNodes(path) ==
  [i \in 1..Len(path) |->
     LintNode(path[i].type, i + 1 - path[i].up, path[i].role,
              IF path[i].type = "Identifier" THEN <<"run">> ELSE <<>>,
              IF path[i].off = 0 THEN 0 ELSE i + 1 + path[i].off)]

LintProgram(placement, form, name) ==
  LET under(path) ==
        <<LintNode("Program", 0, "", <<>>, 0)>> \o PathNodes(path)
        \o AwaitedNodes(form, Len(path) + 2, Len(path) + 1, name)
  IN under(PathTo(placement))

LintPrograms ==
  {LintProgram(placement, form, name) :
     placement \in Placements, form \in CallForms, name \in FunctionNames}

InitRule == ScoringIdle /\ ModulesIdle /\ CompareIdle /\ SideIdle

\* Deno.lint.runPlugin(plugin, "test.ts", source)
RunPlugin(program) ==
  /\ lint.program = <<>>
  /\ lint' = [program |-> program, cursor |-> 1, diagnostics |-> <<>>]
  /\ UNCHANGED <<scoreVars, moduleVars, compareVars, resolution, aggregation>>

Visiting(node) == lint.program # <<>> /\ node = lint.cursor /\ node <= Len(lint.program)

\* rules/do_with_try_rule.ts 29-47
AwaitExpression(node) ==
  LET program == lint.program
      argument == program[node].target
  IN /\ Visiting(node)
     /\ program[node].type = "AwaitExpression"
     /\ lint' = [lint EXCEPT
          !.cursor = node + 1,
          !.diagnostics =
             IF program[argument].type = "CallExpression"
             THEN checkAndReportDoFunction(program, @, node,
                    getFunctionName(program, program[argument].target))
             ELSE @]
     /\ UNCHANGED <<scoreVars, moduleVars, compareVars, resolution, aggregation>>

\* rules/do_with_try_rule.ts 50-74
CallExpression(node) ==
  LET program == lint.program
  IN /\ Visiting(node)
     /\ program[node].type = "CallExpression"
     /\ lint' = [lint EXCEPT
          !.cursor = node + 1,
          !.diagnostics =
             IF /\ program[node].parent # 0
                /\ program[program[node].parent].type = "AwaitExpression"
             THEN @
             ELSE checkAndReportDoFunction(program, @, node,
                    getFunctionName(program, program[node].target))]
     /\ UNCHANGED <<scoreVars, moduleVars, compareVars, resolution, aggregation>>

\* a node of a type the rule has no handler for
VisitOther(node) ==
  /\ Visiting(node)
  /\ lint.program[node].type \notin {"AwaitExpression", "CallExpression"}
  /\ lint' = [lint EXCEPT !.cursor = node + 1]
  /\ UNCHANGED <<scoreVars, moduleVars, compareVars, resolution, aggregation>>

NextRule ==
  \/ \E program \in LintPrograms : RunPlugin(program)
  \/ AwaitExpression(lint.cursor)
  \/ CallExpression(lint.cursor)
  \/ VisitOther(lint.cursor)

SpecRule == InitRule /\ [][NextRule]_vars

-----------------------------------------------------------------------------
(* Properties of the scorer and the hotspot utilities                      *)

Entries == {context.trace[i] : i \in DOMAIN context.trace}

ScorableKinds == {"SourceFile", "Block"} \cup StatementKinds \cup ExpressionKinds
\* Kinds for which no generation of the scorer has a formula.
NoFormulaKinds == {"Identifier", "NumericLiteral", "BreakStatement",
  "FunctionDeclaration", "ClassDeclaration", "InterfaceDeclaration",
  "ImportDeclaration"}
OutcomeKind == IF outcome.node = 0 THEN "SourceFile" ELSE kindOf(outcome.node)

\* C5 as claimed: the facade returns a result for every structurally valid
\* node of any kind, and a kind without a formula gets score 1, no children.
C5_NeverThrows ==
  (outcome.kind # "none" /\ outcome.node \notin Malformed) =>
     /\ outcome.kind = "returned"
     /\ OutcomeKind \in NoFormulaKinds =>
          outcome.res.score = 1000 /\ outcome.res.children = <<>>

\* C5 amended: the facade returns a result exactly for files, blocks,
\* statements and expressions and throws for every other node kind; a
\* statement or expression kind without a formula gets score 1, no children.
C5_ThrowsOnlyOnUnsupportedKind ==
  outcome.kind # "none" =>
     /\ (outcome.kind = "threw") <=> (OutcomeKind \notin ScorableKinds)
     /\ (outcome.kind = "returned") <=> (OutcomeKind \in ScorableKinds)
     /\ (outcome.kind = "returned" /\ OutcomeKind \in NoFormulaKinds) =>
          outcome.res.score = 1000 /\ outcome.res.children = <<>>

C5_Witness ==
  /\ outcome.kind = "returned"
  /\ OutcomeKind = "FunctionDeclaration"
  /\ outcome.res.score = 1000
  /\ ~outcome.visitedBefore

\* C6: a scorer (expression, statement or block) entered with
\* currentDepth >= maxDepth returns score 1, no children, truncated = true,
\* and makes no further scorer call.
C6_TruncatedAtMaxDepth ==
  \A e \in Entries :
    e.depthIn >= e.maxDepth =>
      /\ e.res.score = 1000
      /\ e.res.children = 0
      /\ e.res.metadata.truncated
      /\ e.calls = 0

C6_Witness ==
  \A fn \in {"expr", "stmt"} :
    \E e \in Entries :
      e.fn = fn /\ e.depthIn >= e.maxDepth /\ e.res.metadata.truncated

\* C7 as claimed: a request for a node already in visited returns a
\* childless result marked circular without descending, and no node's
\* formula runs twice in one context.
C7_VisitedGivesCircular ==
  /\ \A n \in DOMAIN context.runs : context.runs[n] <= 1
  /\ \A e \in Entries :
       e.visitedIn => e.res.metadata.circular /\ e.res.children = 0 /\ e.calls = 0

\* C7 amended: no node's formula runs twice in one context; a request for
\* a node already in visited returns a childless result without descending,
\* marked circular when currentDepth < maxDepth and marked truncated when
\* the depth limit, which is tested first, has been reached.
C7_VisitedNeverRescored ==
  /\ \A n \in DOMAIN context.runs : context.runs[n] <= 1
  /\ \A e \in Entries :
       e.visitedIn =>
         /\ e.res.children = 0
         /\ e.calls = 0
         /\ IF e.depthIn >= e.maxDepth
            THEN e.res.metadata.truncated /\ ~e.res.metadata.circular
            ELSE e.res.metadata.circular /\ ~e.res.metadata.truncated

\* The structurally cyclic statement was scored and its second visit cut.
C7_Witness ==
  /\ outcome.kind = "returned"
  /\ outcome.node \in Malformed
  /\ ~outcome.visitedBefore
  /\ \E e \in Entries : e.node = outcome.node /\ e.visitedIn /\ e.res.metadata.circular

\* C8 as claimed: every scoring call returns with currentDepth equal to its
\* value at entry.
C8_DepthRestored ==
  \A e \in Entries : e.depthOut = e.depthIn

\* C9: the score of the file with a statement appended is at least the
\* score of the file before.
C9_AppendMonotone ==
  fileResult.res # Null => fileResult.res.score >= prevFileScore

C9_Witness ==
  /\ Len(sourceFile) = MaxStatements
  /\ fileResult.res # Null
  /\ fileResult.res.score > prevFileScore
  /\ prevFileScore > 1000

Paths(r) == InRange(flattenComplexityResult(r))

\* C10: extractHotspots(r, t) returns exactly the nodes of r, root
\* included, with score >= t, each once.
C10_HotspotsExact ==
  hotspots.asked =>
    LET r == fileResult.res
        want == {p \in Paths(r) : At(r, p).score >= hotspots.threshold}
    IN /\ InRange(hotspots.list) = want
       /\ Len(hotspots.list) = Cardinality(want)

\* Some nodes are returned (the root among them) and some are left out.
C10_Witness ==
  /\ hotspots.asked
  /\ <<>> \in InRange(hotspots.list)
  /\ Len(hotspots.list) > 2
  /\ Len(hotspots.list) < Cardinality(Paths(fileResult.res))
  /\ \E p \in InRange(hotspots.list) : At(fileResult.res, p).score = hotspots.threshold

\* Position of node p in the depth-first pre-order walk of r.
PreOrderIndex(r, p) ==
  CHOOSE k \in 1..Len(flattenComplexityResult(r)) : flattenComplexityResult(r)[k] = p

\* C11: the list extractHotspots returns is ordered by score descending,
\* and nodes with equal scores appear in the order in which a depth-first
\* pre-order walk of the tree meets them.
C11_HotspotsOrdered ==
  hotspots.asked =>
    LET r == fileResult.res
        l == hotspots.list
    IN \A i, j \in 1..Len(l) :
         i < j =>
           \/ At(r, l[i]).score > At(r, l[j]).score
           \/ /\ At(r, l[i]).score = At(r, l[j]).score
              /\ PreOrderIndex(r, l[i]) < PreOrderIndex(r, l[j])

\* The sort moved a node in front of one the walk met earlier, and two
\* nodes of equal score are in the list.
C11_Witness ==
  /\ hotspots.asked
  /\ LET r == fileResult.res
         l == hotspots.list
     IN /\ \E i, j \in 1..Len(l) :
             i < j /\ PreOrderIndex(r, l[i]) > PreOrderIndex(r, l[j])
        /\ \E i, j \in 1..Len(l) :
             i < j /\ At(r, l[i]).score = At(r, l[j]).score

RECURSIVE TreePaths(_)
\* The nodes of a result tree, each named by its path from the root.
TreePaths(r) ==
  {<<>>} \cup UNION {{<<i>> \o q : q \in TreePaths(r.children[i])} :
                     i \in 1..Len(r.children)}

\* C12: for every result tree r, summarize(r).nodeCount equals
\* flatten(r).length, which is the number of nodes of r and at least 1.
C12_NodeCountIsFlattenLength ==
  summary.asked =>
    /\ summary.value.nodeCount = Len(flattenComplexityResult(fileResult.res))
    /\ summary.value.nodeCount = Cardinality(TreePaths(fileResult.res))
    /\ summary.value.nodeCount >= 1

\* A summarized tree with nodes three levels below the root.
C12_Witness ==
  /\ summary.asked
  /\ summary.value.nodeCount > 6
  /\ \E p \in TreePaths(fileResult.res) : Len(p) >= 3

\* the blocks of a try statement in source order: try, catch, finally
TryBlocks(nd) ==
  <<nd.x[1]>> \o (IF nd.x[2] # 0 THEN nodeOf(nd.x[2]).x ELSE <<>>)
  \o (IF nd.x[3] # 0 THEN <<nd.x[3]>> ELSE <<>>)

\* C17: a try statement is scored 1 (the base) + score(tryBlock) + 1, plus
\* score(catchBlock) + 2 (+0.5 when the catch binds a variable) if it has a
\* catch clause, plus score(finallyBlock) + 1.5 if it has a finally clause,
\* and each scored block is among its children.
C17_TryFormula ==
  (/\ outcome.kind = "returned"
   /\ outcome.node \in NodeIds
   /\ kindOf(outcome.node) = "TryStatement"
   /\ ~outcome.visitedBefore
   /\ outcome.depthBefore < context.maxDepth)
    => LET nd == nodeOf(outcome.node)
           children == outcome.res.children
       IN /\ Len(children) = Len(TryBlocks(nd))
          /\ \A k \in 1..Len(children) :
               /\ children[k].nodeType = "Block"
               /\ \/ children[k].lineInfo = TryBlocks(nd)[k]
                  \/ children[k].metadata.truncated
                  \/ children[k].metadata.circular
          /\ outcome.res.score =
               1000 + SumScores(children) + 1000
               + (IF nd.x[2] # 0
                  THEN 2000 + (IF nodeOf(nd.x[2]).flag = "var" THEN 500 ELSE 0) ELSE 0)
               + (IF nd.x[3] # 0 THEN 1500 ELSE 0)

\* The file scored last and the file it is compared with, under the same
\* options and by the same generation of the scorer.
FileScored(stmts) == fileResult.res # Null /\ sourceFile = stmts
FileScore(stmts) == calculateFileComplexity(stmts, options).res.score

\* compareCodeComplexity on the function with one if and the same function
\* with that if three times in sequence, default weights.
OneIfAgainstThree ==
  compareCodeComplexity(Snippets[2], Snippets[3], DEFAULT_COMPLEXITY_WEIGHTS)

\* C18 as claimed: the file holding a function with one if statement gets a
\* strictly lower file score than the same file with that if three times
\* in sequence in the function body.
C18_OneIfFileScoresLower ==
  FileScored(<<ThreeIfFunction>>) =>
    FileScore(<<OneIfFunction>>) < fileResult.res.score

\* C18 amended: compareCodeComplexity under the default weights gives the
\* file with one if a strictly lower scalar than the file with three and
\* reports A; the recursive scorer gives both files the same file score,
\* 1 + 0.85 x 1, because no statement formula enters a function body.
C18_OneIfLowerInComparatorOnly ==
  FileScored(<<ThreeIfFunction>>) =>
    /\ OneIfAgainstThree.scoreA < OneIfAgainstThree.scoreB
    /\ OneIfAgainstThree.betterCode = "A"
    /\ FileScore(<<OneIfFunction>>) = fileResult.res.score
    /\ fileResult.res.score = 1850
    /\ fileResult.res.children[1].children = <<>>

\* The file with the three-if function was scored by the pattern
\* generation under the default depth limit.
C18_Witness ==
  /\ FileScored(<<ThreeIfFunction>>)
  /\ impl = "pattern"
  /\ options.maxDepth = 0
  /\ fileResult.res.score = 1850

\* a node of the result tree was cut by the depth limit
Truncated(r) == \E path \in TreePaths(r) : At(r, path).metadata.truncated

\* compareCodeComplexity(function with a switch of n cases, function with a
\* chain of n branches), default weights, with or without default / else.
SwitchAgainstChain(n, last) ==
  compareCodeComplexity(Snippets[SwitchSnippet(n, last)], Snippets[ChainSnippet(n, last)],
                        DEFAULT_COMPLEXITY_WEIGHTS)

\* C19 as claimed: for every N >= 2 a switch statement with N cases gets a
\* strictly lower score than a chain of N if / else-if branches that test
\* the same discriminant for equality.
C19_SwitchScoresLower ==
  \A n \in 2..MaxCases :
    FileScored(<<ChainRoot(n)>>) =>
      FileScore(<<SwitchRoot(n)>>) < fileResult.res.score

\* C19 amended: compareCodeComplexity under the default weights gives the
\* switch a strictly lower scalar than the chain and reports A; the
\* recursive scorer gives the switch the strictly lower score whenever the
\* depth limit cut no node of either statement.
C19_SwitchLowerUnlessTruncated ==
  \A n \in 2..MaxCases :
    FileScored(<<ChainRoot(n)>>) =>
      /\ \A last \in BOOLEAN :
           /\ SwitchAgainstChain(n, last).scoreA < SwitchAgainstChain(n, last).scoreB
           /\ SwitchAgainstChain(n, last).betterCode = "A"
      /\ LET lower(switch) ==
               (~Truncated(fileResult.res) /\ ~Truncated(switch))
                  => switch.score < fileResult.res.score
         IN lower(calculateFileComplexity(<<SwitchRoot(n)>>, options).res)

\* The longest chain was scored in full by the pattern generation, whose
\* switch formula scores every clause.
C19_Witness ==
  /\ FileScored(<<ChainRoot(MaxCases)>>)
  /\ impl = "pattern"
  /\ ~Truncated(fileResult.res)
  /\ FileScore(<<SwitchRoot(MaxCases)>>) > 2000

\* the results in the tree of the file result, the root included
FileResults == {At(fileResult.res, p) : p \in InRange(flattenComplexityResult(fileResult.res))}

RECURSIVE CaseWeighted(_, _)
\* The children's scores as a switch statement adds them: the discriminant
\* (the first child) and the statements in full, the case expressions at
\* three tenths.
CaseWeighted(rs, i) ==
  IF i > Len(rs) THEN 0
  ELSE (IF i > 1 /\ rs[i].nodeType \in ExpressionKinds THEN (3 * rs[i].score) \div 10
        ELSE rs[i].score)
       + CaseWeighted(rs, i + 1)

\* C24 as claimed: in every result of the scorer the score is at least the
\* sum of the scores of the children.
C24_ScoreAtLeastChildren ==
  fileResult.res # Null =>
    \A r \in FileResults : r.score >= SumScores(r.children)

\* C24 amended: every score is positive and at least the sum of the
\* children's scores, except that a switch statement counts its case
\* expressions at three tenths and a source file counts each statement at
\* its weight, which is at least eight tenths.
C24_ScoreAtLeastWeightedChildren ==
  fileResult.res # Null =>
    \A r \in FileResults :
      /\ r.score > 0
      /\ r.score >= IF r.nodeType = "SwitchStatement" THEN CaseWeighted(r.children, 1)
                    ELSE IF r.nodeType = "SourceFile"
                      THEN 1000 + (8 * SumScores(r.children)) \div 10
                    ELSE SumScores(r.children)

\* A scored file with a switch statement that scores less than its
\* children together, next to a statement of another kind that has
\* children.
C24_Witness ==
  /\ fileResult.res # Null
  /\ \E r, q \in InRange(fileResult.res.children) :
       /\ r.nodeType = "SwitchStatement"
       /\ r.score < SumScores(r.children)
       /\ q.nodeType # "SwitchStatement"
       /\ q.children # <<>>
       /\ q.score >= SumScores(q.children)

\* C25: at every point of a scoring run the depth counter of the context
\* lies between 0 and maxDepth: when a scorer call is entered, when it
\* returns, and between the calls a caller makes on one context.
C25_DepthWithinBounds ==
  /\ 0 <= context.currentDepth /\ context.currentDepth <= context.maxDepth
  /\ \A e \in Entries :
       /\ 0 <= e.depthIn /\ e.depthIn <= e.maxDepth
       /\ 0 <= e.depthOut /\ e.depthOut <= e.maxDepth

-----------------------------------------------------------------------------
(* Properties of the metrics engine and the score comparator               *)

\* toScalar(analyze(code), weights)
Scalar(code, weights) ==
  calculateComplexityScore(analyzeCodeComplexity(Snippets[code]), weights)

\* C13: compare(codeA, codeB, weights) reports A exactly when
\* scalarA < scalarB, B exactly when scalarB < scalarA, and NEITHER exactly
\* when the two scalars are equal, both 0 included; the scalars it reports
\* are the weighted sums of the two snippets' metrics.
C13_VerdictFollowsScalars ==
  comparison.called =>
    /\ comparison.scoreA = Scalar(comparison.codeA, comparison.weights)
    /\ comparison.scoreB = Scalar(comparison.codeB, comparison.weights)
    /\ comparison.betterCode = "A" <=> comparison.scoreA < comparison.scoreB
    /\ comparison.betterCode = "B" <=> comparison.scoreB < comparison.scoreA
    /\ comparison.betterCode = "NEITHER" <=> comparison.scoreA = comparison.scoreB

\* Two different snippets with the same scalar under the default weights
\* were compared; elsewhere both scalars are 0.
C13_Witness ==
  /\ comparison.called
  /\ comparison.betterCode = "NEITHER"
  /\ comparison.codeA # comparison.codeB
  /\ comparison.scoreA > 0
  /\ comparison.weights = DEFAULT_COMPLEXITY_WEIGHTS

\* C14: swapping the two arguments of compare swaps the verdict: A becomes
\* B, B becomes A, NEITHER stays NEITHER, and compare(a, a) is NEITHER.
C14_SwapSwapsVerdict ==
  /\ (comparison.called /\ comparison.codeA = comparison.codeB)
        => comparison.betterCode = "NEITHER"
  /\ (previous.called /\ comparison.called) =>
        /\ comparison.codeA = previous.codeB /\ comparison.codeB = previous.codeA
        /\ previous.betterCode = "A" <=> comparison.betterCode = "B"
        /\ previous.betterCode = "B" <=> comparison.betterCode = "A"
        /\ previous.betterCode = "NEITHER" <=> comparison.betterCode = "NEITHER"

\* compare(a, b) said A under weights that are not the default, and the
\* swapped call has answered.
C14_Witness ==
  /\ previous.called
  /\ comparison.called
  /\ previous.betterCode = "A"
  /\ comparison.betterCode = "B"
  /\ comparison.weights # DEFAULT_COMPLEXITY_WEIGHTS

-----------------------------------------------------------------------------
(* Properties of the module dependency graph analyser                      *)

Resolved == pc \notin {"idle", "create"}
Sorted == pc \in {"aggregate", "calculate", "done"}

ModulePaths == {modules[i].path : i \in 1..Len(modules)}
DependenciesOf(i) == InRange(modules[i].dependencies)
\* Position of module i in the sorted list, 0 when it is not in it.
PositionOf(i) ==
  LET at == {k \in 1..Len(order) : order[k] = i}
  IN IF at = {} THEN 0 ELSE CHOOSE k \in at : TRUE
OnceInOrder(i) == Cardinality({k \in 1..Len(order) : order[k] = i}) = 1

RECURSIVE Reaches(_, _, _)
\* Module j can be reached from module i along at most n remaining edges.
Reaches(i, j, n) ==
  /\ n > 0
  /\ \E q \in DependenciesOf(i) :
       LET d == moduleMapGet(modules, q)
       IN d # 0 /\ (d = j \/ Reaches(d, j, n - 1))

Acyclic == \A i \in 1..Len(modules) : ~Reaches(i, i, Len(modules))

ContentOf(f) == fileContents[f]
HasContent(f) == ContentOf(f).text = "source"

\* Steps the DFS still has to take: the turns left in topologicalSort's
\* loop, the turns left in the loops of the frames on the stack, the
\* returns of those frames, and the turns and the return of every module
\* not yet entered.
RemainingVisits ==
  LET frameTurns(k) == Len(stack[k].deps) + 1 - stack[k].next
      entered == {stack[k].module : k \in 1..Len(stack)}
      future == {i \in 1..Len(modules) : ~modules[i].visited /\ i \notin entered}
      Sum[k \in 0..Len(stack)] == IF k = 0 THEN 0 ELSE frameTurns(k) + 1 + Sum[k - 1]
      Later[k \in 0..Len(modules)] ==
        IF k = 0 THEN 0
        ELSE (IF k \in future THEN Len(modules[k].dependencies) + 1 ELSE 0) + Later[k - 1]
  IN (Len(modules) + 1 - cursor) + Sum[Len(stack)] + Later[Len(modules)]

\* Steps calculateModulesComplexity still has to take, phase by phase.
Remaining ==
  CASE pc = "idle"      -> 600
    [] pc = "create"    -> 500 + (Len(filePaths) + 1 - cursor)
    [] pc = "sort"      -> 400
    [] pc = "visit"     -> 300 + RemainingVisits
    [] pc = "aggregate" -> 200
    [] pc = "calculate" -> 100 + (Len(order) + 1 - cursor)
    [] OTHER            -> 0

\* The steps of topologicalSort.
TopologicalSort == SortStart \/ VisitRoot \/ VisitDependency \/ VisitExit \/ SortReturn

\* C1: whatever the imports, cyclic ones included, calculateModulesComplexity
\* terminates (every step lowers a natural number, and the sort is stuck
\* in no state before it returns), does not throw, and returns one result per
\* analysed module, each with a moduleComplexity that is a number, not NaN.
C1_TerminatesWithFiniteScores ==
  /\ [](pc # "threw")
  /\ [](Remaining >= 0)
  /\ [][Remaining' < Remaining]_vars
  /\ [](pc \in {"sort", "visit"} => ENABLED TopologicalSort)
  /\ [](pc = "done" =>
         /\ {results[k].path : k \in 1..Len(results)} = ModulePaths
         /\ \A k \in 1..Len(results) :
              results[k].moduleComplexity # NaN /\ results[k].moduleComplexity >= 0)

\* The run ended for files whose imports form a two-module cycle and a
\* self-import.
C1_Witness ==
  /\ pc = "done"
  /\ Len(results) = Cardinality(Files)
  /\ \E e \in reached : e[1] = e[2]
  /\ \E e \in reached : e[1] # e[2]

C3_RemainingEdgesAcyclic ==
  /\ pc # "threw"
  /\ \A e \in reached : e[2] \notin DependenciesOf(moduleMapGet(modules, e[1]))
  /\ Sorted => Acyclic

\* A cycle between different modules was cut, and edges remain.
C3_Witness ==
  /\ Sorted
  /\ \E e \in reached : e[1] # e[2]
  /\ Cardinality({i \in 1..Len(modules) : DependenciesOf(i) # {}}) = 2
  /\ \A f \in Files : HasContent(f) /\ Len(ContentOf(f).imports) = 1

\* C4: after the resolve phase every path in every module's dependencies is
\* the path of an analysed module, and the analysis has not failed.
C4_DependenciesAreModules ==
  Resolved =>
    /\ pc # "threw"
    /\ \A i \in 1..Len(modules) : DependenciesOf(i) \subseteq ModulePaths

\* A module imports a file that is not analysed: the import is gone.
C4_Witness ==
  /\ Resolved
  /\ \E i \in 1..Len(modules) :
       /\ DependenciesOf(i) # {}
       /\ \E k \in 1..Len(ContentOf(modules[i].path).imports) :
            LET st == ContentOf(modules[i].path).imports[k]
            IN /\ startsWith(st.specifier, ".")
               /\ resolveImportPath(modules[i].path, st.specifier) \notin ModulePaths

\* the moduleComplexity reported for the module of a path
ReportedComplexity(path) ==
  LET k == CHOOSE j \in 1..Len(results) : results[j].path = path
  IN results[k].moduleComplexity

RECURSIVE SumReported(_)
SumReported(paths) ==
  IF paths = <<>> THEN 0 ELSE ReportedComplexity(Head(paths)) + SumReported(Tail(paths))

\* the file result's score plus the scores of its direct children
FileValue(r) == r.details.score + SumSeq(r.details.children)

\* C15: after aggregation each module's moduleComplexity is its own file
\* value (the file result's score plus its direct children's scores) when
\* it has no dependencies, and that value plus 0.5 * (sum of its
\* dependencies' moduleComplexity) / sqrt(number of its dependencies) when
\* it has at least one.
C15_ModuleComplexityFormula ==
  pc = "done" =>
    \A k \in 1..Len(results) :
      results[k].moduleComplexity =
        IF results[k].dependencies = <<>> THEN FileValue(results[k])
        ELSE FileValue(results[k])
             + (50 * SumReported(results[k].dependencies))
               \div sqrt(Len(results[k].dependencies))

\* A module with two dependencies, one of which has a dependency of its
\* own, and a file result that has children.
C15_Witness ==
  /\ pc = "done"
  /\ \E k, j \in 1..Len(results) :
       /\ Len(results[k].dependencies) = 2
       /\ results[j].path \in InRange(results[k].dependencies)
       /\ Len(results[j].dependencies) = 1
       /\ results[j].details.children # <<>>
       /\ results[k].moduleComplexity > FileValue(results[k])

\* the module a path names, among the modules that were built
ModuleAt(path) == moduleMapGet(modules, path)

RECURSIVE SumCurrent(_)
\* the sum of the moduleComplexity the listed modules hold now
SumCurrent(paths) ==
  IF paths = <<>> THEN 0
  ELSE modules[ModuleAt(Head(paths))].moduleComplexity + SumCurrent(Tail(paths))

\* the module the next turn of the aggregation loop takes
NextAggregated == Reverse(order)[cursor]

\* C21: during aggregation a module is computed only after every
\* dependency left in its list has been computed and memoized: the module
\* the loop takes next has all its dependencies in calculatedModules, and
\* every memoized module's value is the formula over its dependencies'
\* memoized values, so each value added was the dependency's final one.
C21_DependenciesFinalBeforeModule ==
  pc = "calculate" =>
    /\ cursor <= Len(order) =>
         \A q \in DependenciesOf(NextAggregated) : q \in calculatedModules
    /\ \A i \in 1..Len(modules) :
         modules[i].path \in calculatedModules =>
           /\ \A q \in DependenciesOf(i) : q \in calculatedModules
           /\ modules[i].moduleComplexity =
                IF modules[i].dependencies = <<>>
                  THEN calculateFileNodeComplexity(modules[i])
                ELSE calculateFileNodeComplexity(modules[i])
                     + (50 * SumCurrent(modules[i].dependencies))
                       \div sqrt(Len(modules[i].dependencies))

\* The loop is about to take a module with a dependency that itself has a
\* dependency, both memoized, after a cycle was pruned.
C21_Witness ==
  /\ pc = "calculate"
  /\ cursor <= Len(order)
  /\ reached # {}
  /\ \E q \in DependenciesOf(NextAggregated) :
       /\ q \in calculatedModules
       /\ DependenciesOf(ModuleAt(q)) # {}
       /\ DependenciesOf(ModuleAt(q)) \subseteq calculatedModules

\* the dependencies list of module i as resolveDependencies left it
ResolvedDependencies(i) ==
  SelectSeq(analyzeDependencies(ContentOf(modules[i].path).imports, modules[i].path),
            LAMBDA q : q \in ModulePaths)

RECURSIVE Imports(_, _, _)
\* Module j can be reached from module i along at most n resolved imports.
Imports(i, j, n) ==
  /\ n > 0
  /\ \E q \in InRange(ResolvedDependencies(i)) :
       ModuleAt(q) = j \/ Imports(ModuleAt(q), j, n - 1)

\* The resolved import of q by module i closes a cycle of the import graph.
OnCycle(i, q) == ModuleAt(q) = i \/ Imports(ModuleAt(q), i, Len(modules))

ImportsAcyclic == \A i \in 1..Len(modules) : ~Imports(i, i, Len(modules))

\* C26: from the start of topologicalSort on, a module's dependencies list
\* is its resolved list without some paths, every path missing from it is
\* an import that lies on a cycle of the resolved import graph, and when
\* that graph has no cycle every list is as resolveDependencies left it.
C26_OnlyCycleEdgesRemoved ==
  pc \in {"visit", "aggregate", "calculate", "done"} =>
    /\ \A i \in 1..Len(modules) :
         /\ modules[i].dependencies =
              SelectSeq(ResolvedDependencies(i), LAMBDA q : q \in DependenciesOf(i))
         /\ \A q \in InRange(ResolvedDependencies(i)) \ DependenciesOf(i) : OnCycle(i, q)
    /\ ImportsAcyclic =>
         \A i \in 1..Len(modules) : modules[i].dependencies = ResolvedDependencies(i)

\* The sort has returned; one module lost an import that lies on a cycle
\* and kept another one that does not.
C26_Witness ==
  /\ Sorted
  /\ \E i \in 1..Len(modules) :
       /\ InRange(ResolvedDependencies(i)) \ DependenciesOf(i) # {}
       /\ \E q \in DependenciesOf(i) : ~OnCycle(i, q)

\* the listed paths that have a content, in listing order
RECURSIVE InputPaths(_)
InputPaths(paths) ==
  IF paths = <<>> THEN <<>>
  ELSE (IF ContentOf(Head(paths)).text \in {"undefined", ""} THEN <<>> ELSE <<Head(paths)>>)
       \o InputPaths(Tail(paths))

\* C28: the list topologicalSort returns is a permutation of its input
\* list: it is as long as the input, every input module is at exactly one
\* position of it, and the modules are those built from the listed files,
\* whether or not their imports form cycles.
C28_SortReturnsPermutation ==
  /\ pc # "threw"
  /\ Sorted =>
       /\ Len(order) = Len(modules)
       /\ \A i \in 1..Len(modules) : OnceInOrder(i)
       /\ \A k \in 1..Len(order) : order[k] \in 1..Len(modules)
       /\ [i \in 1..Len(modules) |-> modules[i].path] = InputPaths(filePaths)

\* Three modules were sorted; one is imported by both others, and an
\* import that closed a cycle was met on the way.
C28_Witness ==
  /\ Sorted
  /\ Len(order) = 3
  /\ reached # {}
  /\ \E i \in 1..Len(modules) :
       Cardinality({j \in 1..Len(modules) : j # i /\ modules[i].path \in DependenciesOf(j)}) = 2

\* the file paths listed that have an entry in the contents map
WithEntry == {f \in InRange(filePaths) : ContentOf(f).text # "undefined"}

\* C30: calculateModulesComplexity returns exactly one result for each
\* listed file path that has an entry in the contents map, a file whose
\* content is the empty string included, and no other result.
C30_OneResultPerFileWithEntry ==
  pc = "done" =>
    /\ Len(results) = Cardinality(WithEntry)
    /\ \A f \in WithEntry :
         Cardinality({k \in 1..Len(results) : results[k].path = f}) = 1

\* the modules the first loop of calculateModulesComplexity built
Built ==
  [i \in 1..Len(modules) |->
     [modules[i] EXCEPT !.dependencies =
                          analyzeDependencies(ContentOf(modules[i].path).imports, modules[i].path),
                        !.moduleComplexity = modules[i].fileComplexity.score,
                        !.visited = FALSE,
                        !.temporaryMark = FALSE]]

\* what is reported for a path in a list of results
ReportedIn(rs, path) ==
  LET k == CHOOSE j \in 1..Len(rs) : rs[j].path = path
  IN [moduleComplexity |-> rs[k].moduleComplexity, dependencies |-> rs[k].dependencies]

\* The results for the same files listed in any other order report the
\* same moduleComplexity and dependencies for every module.
SameInEveryOrder ==
  \A p \in Permutations(1..Len(modules)) :
    LET other == analyzeModules([k \in 1..Len(modules) |-> Built[p[k]]])
    IN /\ Len(other) = Len(results)
       /\ \A k \in 1..Len(results) :
            ReportedIn(other, results[k].path) = ReportedIn(results, results[k].path)

\* C27 as claimed: what is reported for each module does not depend on the
\* order in which the file paths are listed.
C27_ReportIndependentOfOrder == pc = "done" => SameInEveryOrder

\* C27 amended: when the resolved imports form no cycle, what is reported
\* for each module does not depend on the order of the file paths.
C27_ReportIndependentOfOrderIfAcyclic ==
  (pc = "done" /\ ImportsAcyclic) => SameInEveryOrder

\* Three modules without a cycle: one imports the other two, and one of
\* those imports the other.
C27_Witness ==
  /\ pc = "done"
  /\ ImportsAcyclic
  /\ Len(results) = 3
  /\ \E k, j \in 1..Len(results) :
       /\ Len(results[k].dependencies) = 2
       /\ results[j].path \in InRange(results[k].dependencies)
       /\ results[j].dependencies # <<>>
  /\ SameInEveryOrder

-----------------------------------------------------------------------------
(* Properties of calculateModuleComplexity called on a list                *)

AggregationLog == {aggregation.log[i] : i \in 1..Len(aggregation.log)}

\* the entries for a module that was met while its own call was running
MetInFlight == {e \in AggregationLog : e.line \in {"continue", "processing"}}

\* No module has two calls of calculateDependencyComplexity running.
NeverReentered ==
  \A i, j \in 1..Len(aggregation.frames) :
    aggregation.frames[i].module = aggregation.frames[j].module => i = j

\* C22: when the recursion reaches a module whose own aggregation is in
\* flight it does not enter that module again, and the value taken for it
\* is the moduleComplexity the module holds at that moment.
C22_InFlightTakesPartialValue ==
  /\ NeverReentered
  /\ \A e \in MetInFlight : e.value = e.current

\* C23: the aggregation never computes a module at a recursion depth above
\* the ceiling of 10: no call running and no module computed is deeper, a
\* call made beyond the ceiling returns by the depth test with the module's
\* current moduleComplexity, and nothing is met below such a call.
C23_NoComputationBeyondCeiling ==
  /\ \A i \in 1..Len(aggregation.frames) : aggregation.frames[i].depth <= AggregationMaxDepth
  /\ \A e \in AggregationLog :
       /\ e.line = "computed" => e.depth <= AggregationMaxDepth
       /\ (e.depth > AggregationMaxDepth /\ e.line # "continue") =>
            e.line = "maxDepth" /\ e.value = e.current
       /\ e.depth <= AggregationMaxDepth + 1

\* The run is over; a module that has a dependency was called beyond the
\* ceiling and returned its file score, and was computed later from the
\* loop of calculateModuleComplexity.
C23_Witness ==
  /\ aggregation.pc = "done"
  /\ \E e, c \in AggregationLog :
       /\ e.line = "maxDepth"
       /\ e.depth = AggregationMaxDepth + 1
       /\ aggregation.input[e.module].dependencies # <<>>
       /\ e.value = aggregation.input[e.module].fileComplexity.score
       /\ c.module = e.module
       /\ c.line = "computed"
       /\ c.depth = 0

-----------------------------------------------------------------------------
(* Properties of import resolution                                         *)

\* the directory a specifier names, seen from the file that imports it
ResolvedDirectory(basePath, importPath) ==
  normalizePath(SubSeq(basePath, 1, lastIndexOf(basePath, "/")) \o importPath)

\* C16: when a relative import specifier ends in "/", import resolution
\* yields the default module file inside that directory: the resolved
\* directory path followed by "/" and the default file name index.ts.
C16_TrailingSlashGivesDefaultFile ==
  (/\ resolution.called
   /\ startsWith(resolution.importPath, ".")
   /\ endsWith(resolution.importPath, "/"))
    => resolution.resolved =
         ResolvedDirectory(resolution.basePath, resolution.importPath)
         \o <<"/", "index", ".ts">>

\* the way a file path starts: "/" (absolute), "./", or neither
Prefix(path) ==
  IF startsWith(path, "/") THEN <<"/">>
  ELSE IF Len(path) >= 2 /\ path[1] = "." /\ path[2] = "/" THEN <<".", "/">>
  ELSE <<>>

\* the directories of a file path below its prefix, outermost first
Directories(path) ==
  SelectSeq(split(SubSeq(path, Len(Prefix(path)) + 1, lastIndexOf(path, "/")), <<>>, <<>>),
            LAMBDA part : part # <<>>)

\* the specifiers ./x.ts and ../x.ts
SiblingSpecifier(importPath) ==
  Len(importPath) = 4 /\ SubSeq(importPath, 1, 2) = <<".", "/">> /\ importPath[4] = ".ts"
ParentSpecifier(importPath) ==
  Len(importPath) = 5 /\ SubSeq(importPath, 1, 3) = <<".", ".", "/">> /\ importPath[5] = ".ts"

\* The path of the file a specifier ./x.ts or ../x.ts names, seen from the
\* file at basePath and written the way basePath is written.
TargetPath(basePath, importPath) ==
  LET dirs == Directories(basePath)
      kept == IF ParentSpecifier(importPath) THEN SubSeq(dirs, 1, Len(dirs) - 1) ELSE dirs
      file == SubSeq(importPath, Len(importPath) - 1, Len(importPath))
  IN Prefix(basePath) \o join(Append(kept, file))

\* the dependencies resolveDependencies leaves to the importer when the
\* file set is the importer and the file at target
KeptDependencies(basePath, resolved, target) ==
  resolveDependencies(<<[path |-> basePath, dependencies |-> <<resolved>>],
                        [path |-> target, dependencies |-> <<>>]>>)[1].dependencies

\* C29: when the file at basePath imports ./x.ts or ../x.ts (the latter
\* from a file that lies in a directory) and the file set holds the path
\* the specifier names from basePath's directory, the resolved dependency
\* is that path and resolveDependencies keeps it, whether basePath is
\* plain relative, starts with "./" or is absolute.
C29_SiblingImportResolvesToListedPath ==
  (/\ resolution.called
   /\ \/ SiblingSpecifier(resolution.importPath)
      \/ ParentSpecifier(resolution.importPath) /\ Directories(resolution.basePath) # <<>>)
    => LET target == TargetPath(resolution.basePath, resolution.importPath)
       IN /\ resolution.resolved = target
          /\ KeptDependencies(resolution.basePath, resolution.resolved, target) = <<target>>

-----------------------------------------------------------------------------
(* Properties of the lint rule                                              *)

LintDone == lint.program # <<>> /\ lint.cursor > Len(lint.program)

\* the calls, plain or method, awaited or not, of a function whose name
\* starts with do
DoCalls(program) ==
  {n \in 1..Len(program) :
     /\ program[n].type = "CallExpression"
     /\ program[program[n].target].type \in {"Identifier", "MemberExpression"}
     /\ startsWith(getFunctionName(program, program[n].target), "do")}

\* the diagnostic names the call, or the await expression that holds it
Reported(n) ==
  \E i \in 1..Len(lint.diagnostics) :
    \/ lint.diagnostics[i].node = n
    \/ /\ lint.program[n].parent # 0
       /\ lint.program[lint.program[n].parent].type = "AwaitExpression"
       /\ lint.diagnostics[i].node = lint.program[n].parent

RECURSIVE InTryBlock(_, _)
\* node n lies inside the try block of a try statement of its enclosing
\* function (or of the top level)
InTryBlock(program, n) ==
  IF program[n].parent = 0 THEN FALSE
  ELSE IF program[program[n].parent].type = "TryStatement" /\ program[n].role = "block"
    THEN TRUE
  ELSE IF program[program[n].parent].type \in FunctionTypes THEN FALSE
  ELSE InTryBlock(program, program[n].parent)

\* C20: the rule reports a call (plain, method or awaited) of a function
\* whose name starts with do exactly when the call does not lie inside the
\* try block of a try statement of its enclosing function.
C20_ReportedExactlyOutsideTryBlock ==
  LintDone =>
    \A n \in DoCalls(lint.program) :
      Reported(n) <=> ~InTryBlock(lint.program, n)

=============================================================================
